---- MODULE Spec2Model ----
(***************************************************************************)
(* State-machine model of the ui-annotator annotation editor:              *)
(*   - lib/geometry.ts            pixel / normalized bounding boxes        *)
(*   - lib/throttle.ts            throttle(fn, wait, {leading, trailing})  *)
(*   - services/element-factory   createElement / generateSerialNumber     *)
(*   - store/annotation-store.ts  the zustand store, its temporal (undo /  *)
(*                                redo) history and undo/redoAnnotation    *)
(*   - hooks/use-canvas-interaction.ts, hooks/use-konva-snap.ts,           *)
(*     components/canvas/*        the pointer, keyboard and resize         *)
(*                                handlers that drive the store            *)
(*                                                                         *)
(* Numbers.  Pixel coordinates are integers.  A normalized coordinate      *)
(* pixel / imageSize is kept as the exact quotient, a reduced fraction     *)
(* <<numerator, denominator>>; two quotients are equal exactly when the    *)
(* fractions are.  Times are milliseconds (Date.now()).  The inputs keep   *)
(* widths, heights and image sizes even, so that the halves the snapping   *)
(* code takes (w / 2, imageWidth / 2) are integers.                        *)
(***************************************************************************)
EXTENDS Integers, Sequences, FiniteSets, TLC

\* null / undefined: a nullable value is NULL or <<v>>
NULL == <<>>
Some(v) == <<v>>
Val(o) == o[1]

(***************************************************************************)
(* Program constants                                                       *)
(***************************************************************************)
minAnnotationSize == 10
threshold == 8
limit == 50
wait == 500
pasteOffset == 20
\* canvasConfig: zoomFactor 1.2, minScale 0.1, maxScale 5, fitPadding 0.9
zoomFactor == <<6, 5>>
minScale == <<1, 10>>
maxScale == <<5, 1>>
fitPadding == <<9, 10>>

(***************************************************************************)
(* Bounds of the model                                                     *)
(***************************************************************************)
\* Date.now() when the page is opened (well above wait: lastCallTime starts at 0)
StartTime == 1000
\* number of times the clock of the editing specification is advanced by wait
MaxTicks == 1
\* number of uuids createElement draws in one run
MaxIds == 4
\* number of handler runs (user events and direct store calls) in one run
MaxSteps == 4
\* number of past snapshots the near-cap specification starts with: see InitLimit
NearCap == 48
\* number of calls of the throttled function in the throttle specification
MaxCalls == 4
\* number of times the clock of the throttle specification is advanced by TickMs
\* while no timer is pending
MaxThrottleTicks == 4
\* number of times the clock of the near-cap specification is advanced by wait
MaxLimitTicks == 2

\* the factory specification: the serialNumbers of the existing elements are
\* different numbers of 1 .. MaxSerial, at most MaxExisting of them
MaxSerial == 4
MaxExisting == 3

\* the throttle specification's clock step: calls less than wait apart happen
TickMs == wait \div 2

(***************************************************************************)
(* Generic helpers                                                         *)
(***************************************************************************)
Abs(n) == IF n < 0 THEN -n ELSE n
Min(a, b) == IF a <= b THEN a ELSE b
Max(a, b) == IF a >= b THEN a ELSE b
Range(s) == {s[i] : i \in DOMAIN s}

RECURSIVE GCD(_, _)
GCD(a, b) == IF b = 0 THEN a ELSE GCD(b, a % b)

\* Array.prototype.findIndex, 1-based; 0 when nothing matches (-1 in the code)
FindIndex(s, p(_)) ==
  IF \E i \in DOMAIN s : p(s[i])
  THEN CHOOSE i \in DOMAIN s : p(s[i]) /\ \A j \in 1..(i - 1) : ~p(s[j])
  ELSE 0

\* the exact value of a / b (b > 0), as a reduced fraction
Quot(a, b) ==
  LET g == GCD(Abs(a), b)
  IN <<a \div g, b \div g>>

(***************************************************************************)
(* JavaScript numbers of the viewport: scale, offsets and what the zoom    *)
(* handlers compute from them.  A number is <<n, d>>: the reduced fraction *)
(* n / d when d > 0, Infinity <<1, 0>>, -Infinity <<-1, 0>> and NaN        *)
(* <<0, 0>>.  Rounding is left out: finite results are exact.              *)
(***************************************************************************)
Num(n) == <<n, 1>>
NaN == <<0, 0>>
Infinity == <<1, 0>>

Sign(n) == IF n > 0 THEN 1 ELSE IF n < 0 THEN -1 ELSE 0

\* n / d for integers n and d: x / 0 is an infinity, 0 / 0 is NaN
numNorm(n, d) ==
  IF d = 0 THEN <<Sign(n), 0>>
  ELSE IF d < 0 THEN Quot(-n, -d)
  ELSE Quot(n, d)

isNaN(a) == a = NaN

\* a * b
numMul(a, b) == numNorm(a[1] * b[1], a[2] * b[2])

\* a / b
numDiv(a, b) == numNorm(a[1] * b[2], a[2] * b[1])

\* a + b: Infinity + Infinity is Infinity, Infinity + -Infinity is NaN
numAdd(a, b) ==
  IF a[2] = 0 /\ b[2] = 0
  THEN (IF a = b THEN a ELSE NaN)
  ELSE numNorm(a[1] * b[2] + b[1] * a[2], a[2] * b[2])

\* a - b
numSub(a, b) == numAdd(a, <<-b[1], b[2]>>)

\* a < b: false when either is NaN
numLt(a, b) ==
  /\ ~isNaN(a)
  /\ ~isNaN(b)
  /\ IF a[2] = 0 /\ b[2] = 0 THEN a[1] < b[1] ELSE a[1] * b[2] < b[1] * a[2]

\* a <= b: false when either is NaN
numLe(a, b) == numLt(a, b) \/ (a = b /\ ~isNaN(a))

\* Math.min and Math.max: NaN when an argument is NaN
numMin(a, b) == IF isNaN(a) \/ isNaN(b) THEN NaN ELSE IF numLt(a, b) THEN a ELSE b
numMax(a, b) == IF isNaN(a) \/ isNaN(b) THEN NaN ELSE IF numLt(b, a) THEN a ELSE b

(***************************************************************************)
(* lib/geometry.ts                                                         *)
(***************************************************************************)
pixelToNorm(pixel, imageSize) ==
  [x |-> Quot(pixel.x, imageSize.w),
   y |-> Quot(pixel.y, imageSize.h),
   w |-> Quot(pixel.w, imageSize.w),
   h |-> Quot(pixel.h, imageSize.h)]

createBBox(pixel, imageSize) ==
  [pixel |-> pixel, norm |-> pixelToNorm(pixel, imageSize)]

\* a variant of updateBBoxPixel that keeps the old normalized box
updateBBoxPixelKeepNorm(bbox, pixelUpdate, imageSize) ==
  [pixel |-> [f \in DOMAIN bbox.pixel |->
                IF f \in DOMAIN pixelUpdate THEN pixelUpdate[f] ELSE bbox.pixel[f]],
   norm |-> bbox.norm]

\* pixelUpdate is a partial record: its fields override those of bbox.pixel
updateBBoxPixel(bbox, pixelUpdate, imageSize) ==
  LET newPixel == [f \in DOMAIN bbox.pixel |->
                     IF f \in DOMAIN pixelUpdate THEN pixelUpdate[f]
                     ELSE bbox.pixel[f]]
  IN createBBox(newPixel, imageSize)

(***************************************************************************)
(* services/element-factory.ts                                             *)
(***************************************************************************)
SetMax(S) == CHOOSE m \in S : \A n \in S : n <= m

\* a variant of generateSerialNumber that counts the elements
generateSerialNumberByCount(existingElements) == Len(existingElements) + 1

\* a variant of generateSerialNumber that goes by the last element
generateSerialNumberAfterLast(existingElements) ==
  IF Len(existingElements) = 0 THEN 1
  ELSE existingElements[Len(existingElements)].serialNumber + 1

generateSerialNumber(existingElements) ==
  IF Len(existingElements) = 0 THEN 1
  ELSE SetMax({existingElements[i].serialNumber : i \in DOMAIN existingElements}) + 1

\* id is the uuid drawn by uuidv4(), t is the time of the call
createElement(bbox, existingElements, label, id, t) ==
  [id |-> id,
   label |-> label,
   bbox |-> bbox,
   serialNumber |-> generateSerialNumber(existingElements),
   displayOrder |-> Len(existingElements),
   createdAt |-> t,
   updatedAt |-> t]

\* the optional fields of createElement's options: each is put on the element
\* when it is not undefined
OptionalFields == {"component", "notes", "color"}

\* a variant of createElementWith that leaves the optional fields out
createElementBare(bbox, existingElements, options, id, t) ==
  createElement(bbox, existingElements, options.label, id, t)

\* createElement with the label, component, notes and color of options
createElementWith(bbox, existingElements, options, id, t) ==
  LET element == createElement(bbox, existingElements, options.label, id, t)
      given == OptionalFields \cap DOMAIN options
  IN IF given = {} THEN element
     ELSE [k \in DOMAIN element \cup given |->
             IF k \in given THEN options[k] ELSE element[k]]

(***************************************************************************)
(* lib/throttle.ts: throttle(fn, wait, {leading, trailing}).               *)
(* The closure's variables are timeoutId, lastCallTime and lastArgs; th is *)
(* the record of the three.  A pending timer is identified by the time it  *)
(* is due at (setTimeout(cb, d) at time t: t + d); timeoutId is NULL when  *)
(* no timer is pending.  The operators return the closure's new variables  *)
(* and, in invoked, the arguments fn was invoked with (NULL: not invoked). *)
(* args is the argument list of the call.                                  *)
(***************************************************************************)
leading == TRUE
trailing == TRUE

initialThrottle == [timeoutId |-> NULL, lastCallTime |-> 0, lastArgs |-> NULL]

\* invoke(args) at time t: lastCallTime = Date.now(); fn(...args)
invoke(th, args, t) ==
  [th |-> [th EXCEPT !.lastCallTime = t], invoked |-> Some(args)]

\* the throttled function, called with args at time t
throttled(th, args, t) ==
  LET elapsed == t - th.lastCallTime
      th1 == [th EXCEPT !.lastArgs = Some(args)]
      \* if (elapsed >= wait) { clearTimeout; if (leading) { invoke; lastArgs = null } }
      r2 == IF elapsed >= wait
            THEN LET th2 == [th1 EXCEPT !.timeoutId = NULL]
                 IN IF leading
                    THEN LET r == invoke(th2, args, t)
                         IN [th |-> [r.th EXCEPT !.lastArgs = NULL], invoked |-> r.invoked]
                    ELSE [th |-> th2, invoked |-> NULL]
            ELSE [th |-> th1, invoked |-> NULL]
      \* if (trailing && !timeoutId) setTimeout(cb, Math.max(wait - elapsed, 0))
      th3 == IF trailing /\ r2.th.timeoutId = NULL
             THEN [r2.th EXCEPT !.timeoutId = Some(t + Max(wait - elapsed, 0))]
             ELSE r2.th
  IN [th |-> th3, invoked |-> r2.invoked]

\* a variant of the setTimeout callback that drops the pending arguments
timerCallbackDropping(th, t) ==
  [th |-> [th EXCEPT !.timeoutId = NULL, !.lastArgs = NULL], invoked |-> NULL]

\* the setTimeout callback, run at time t
timerCallback(th, t) ==
  LET th1 == [th EXCEPT !.timeoutId = NULL]
  IN IF th1.lastArgs # NULL
     THEN LET r == invoke(th1, Val(th1.lastArgs), t)
          IN [th |-> [r.th EXCEPT !.lastArgs = NULL], invoked |-> r.invoked]
     ELSE [th |-> th1, invoked |-> NULL]

(***************************************************************************)
(* store/types.ts: initial states                                          *)
(***************************************************************************)
initialViewportState ==
  [scale |-> Num(1), offsetX |-> Num(0), offsetY |-> Num(0),
   minScale |-> minScale, maxScale |-> maxScale]
initialContainerSize == [width |-> 0, height |-> 0]
initialSelectionState == [selectedIds |-> <<>>]
initialDrawingState == [isDrawing |-> FALSE, startPoint |-> NULL, currentPoint |-> NULL]
initialClipboardState == [elements |-> <<>>]

\* store/annotation-store.ts: initialState
initialState ==
  [project |-> NULL,
   image |-> NULL,
   elements |-> <<>>,
   selection |-> initialSelectionState,
   drawing |-> initialDrawingState,
   viewport |-> initialViewportState,
   containerSize |-> initialContainerSize,
   activeTool |-> "edit",
   clipboard |-> initialClipboardState]

getImageSize(project) ==
  IF project # NULL
  THEN Some([width |-> Val(project).imageWidth, height |-> Val(project).imageHeight])
  ELSE NULL

\* a variant of syncElementsToProject that only stamps the project
syncElementsToProjectStampOnly(s, t) ==
  IF s.project # NULL
  THEN [s EXCEPT !.project = Some([Val(s.project) EXCEPT !.updatedAt = t])]
  ELSE s

\* new Date().toISOString() at time t is t
syncElementsToProject(s, t) ==
  IF s.project # NULL
  THEN [s EXCEPT !.project = Some([Val(s.project) EXCEPT !.elements = s.elements,
                                                          !.updatedAt = t])]
  ELSE s

\* JSON.parse(JSON.stringify(x)) of plain records of numbers and strings
JSONClone(x) == x

(***************************************************************************)
(* store/annotation-store.ts: the producers handed to set().  Each takes   *)
(* the state s (and the time t of the call) and returns the next state.    *)
(***************************************************************************)
loadProject(s, project, image) ==
  [s EXCEPT !.project = Some(project),
            !.image = image,
            !.elements = project.elements,
            !.selection = initialSelectionState,
            !.viewport = initialViewportState,
            !.drawing = initialDrawingState]

clearProject(s) ==
  [s EXCEPT !.project = NULL,
            !.image = NULL,
            !.elements = <<>>,
            !.selection = initialSelectionState,
            !.viewport = initialViewportState,
            !.drawing = initialDrawingState]

setElements(s, elements, t) ==
  syncElementsToProject([s EXCEPT !.elements = elements], t)

\* a variant of addElement that puts the element first
addElementFirst(s, element, t) ==
  syncElementsToProject([s EXCEPT !.elements = <<element>> \o s.elements], t)

addElement(s, element, t) ==
  syncElementsToProject([s EXCEPT !.elements = Append(s.elements, element)], t)

\* updates is a partial record over label, bbox and displayOrder
updateElement(s, id, updates, t) ==
  LET i == FindIndex(s.elements, LAMBDA e : e.id = id)
  IN IF i = 0 THEN s
     ELSE LET e0 == s.elements[i]
              e1 == IF "label" \in DOMAIN updates THEN [e0 EXCEPT !.label = updates.label] ELSE e0
              e2 == IF "bbox" \in DOMAIN updates THEN [e1 EXCEPT !.bbox = updates.bbox] ELSE e1
              e3 == IF "displayOrder" \in DOMAIN updates
                    THEN [e2 EXCEPT !.displayOrder = updates.displayOrder] ELSE e2
              e4 == [e3 EXCEPT !.updatedAt = t]
          IN syncElementsToProject([s EXCEPT !.elements[i] = e4], t)

\* a variant of deleteElement that leaves the selection alone
deleteElementKeepSelection(s, id, t) ==
  syncElementsToProject(
    [s EXCEPT !.elements = SelectSeq(s.elements, LAMBDA e : e.id # id)], t)

deleteElement(s, id, t) ==
  syncElementsToProject(
    [s EXCEPT !.elements = SelectSeq(s.elements, LAMBDA e : e.id # id),
              !.selection.selectedIds =
                 SelectSeq(s.selection.selectedIds, LAMBDA selectedId : selectedId # id)], t)

moveElement(s, id, deltaX, deltaY, t) ==
  LET i == FindIndex(s.elements, LAMBDA e : e.id = id)
      imageSize == getImageSize(s.project)
  IN IF i = 0 \/ imageSize = NULL THEN s
     ELSE LET element == s.elements[i]
              newPixel == [x |-> element.bbox.pixel.x + deltaX,
                           y |-> element.bbox.pixel.y + deltaY]
              bbox == updateBBoxPixel(element.bbox, newPixel,
                                      [w |-> Val(imageSize).width, h |-> Val(imageSize).height])
          IN syncElementsToProject(
               [s EXCEPT !.elements[i] = [element EXCEPT !.bbox = bbox, !.updatedAt = t]], t)

deleteSelectedElements(s, t) ==
  IF Len(s.selection.selectedIds) = 0 THEN s
  ELSE LET idsToDelete == Range(s.selection.selectedIds)
       IN syncElementsToProject(
            [s EXCEPT !.elements = SelectSeq(s.elements, LAMBDA e : e.id \notin idsToDelete),
                      !.selection.selectedIds = <<>>], t)

\* a variant of reorderElements that moves the element and leaves every
\* displayOrder as it was
reorderElementsNoRenumber(s, oldIndex, newIndex, t) ==
  LET n == Len(s.elements)
      removed == s.elements[oldIndex]
      rest == SubSeq(s.elements, 1, oldIndex - 1) \o SubSeq(s.elements, oldIndex + 1, n)
      moved == SubSeq(rest, 1, newIndex - 1) \o <<removed>> \o SubSeq(rest, newIndex, n - 1)
  IN syncElementsToProject([s EXCEPT !.elements = moved], t)

\* oldIndex, newIndex are positions 1..Len(elements) (the code's are 0-based)
reorderElements(s, oldIndex, newIndex, t) ==
  LET n == Len(s.elements)
      removed == s.elements[oldIndex]
      rest == SubSeq(s.elements, 1, oldIndex - 1) \o SubSeq(s.elements, oldIndex + 1, n)
      moved == SubSeq(rest, 1, newIndex - 1) \o <<removed>> \o SubSeq(rest, newIndex, n - 1)
      renumbered == [i \in 1..n |-> [moved[i] EXCEPT !.displayOrder = i - 1]]
  IN syncElementsToProject([s EXCEPT !.elements = renumbered], t)

selectElement(s, id, addToSelection) ==
  IF addToSelection
  THEN IF id \in Range(s.selection.selectedIds) THEN s
       ELSE [s EXCEPT !.selection.selectedIds = Append(@, id)]
  ELSE [s EXCEPT !.selection.selectedIds = <<id>>]

deselectAll(s) == [s EXCEPT !.selection.selectedIds = <<>>]

copySelectedElements(s) ==
  LET selectedElements ==
        SelectSeq(s.elements, LAMBDA e : e.id \in Range(s.selection.selectedIds))
  IN IF Len(selectedElements) = 0 THEN s
     ELSE [s EXCEPT !.clipboard.elements = JSONClone(selectedElements)]

\* the loop of pasteElements: ids are the uuids drawn, one per clipboard element
\* a variant of pasteNewElements that creates every new element against the
\* elements of the store alone
pasteNewElementsApart(clipboardElements, elements, newElements, imageSize, ids, t) ==
  [i \in DOMAIN clipboardElements |->
     LET pixel == clipboardElements[i].bbox.pixel
         newBbox == createBBox([x |-> pixel.x + pasteOffset,
                                y |-> pixel.y + pasteOffset,
                                w |-> pixel.w,
                                h |-> pixel.h],
                               [w |-> imageSize.width, h |-> imageSize.height])
     IN createElementWith(newBbox, elements, clipboardElements[i], ids[i], t)]

RECURSIVE pasteNewElements(_, _, _, _, _, _)
pasteNewElements(clipboardElements, elements, newElements, imageSize, ids, t) ==
  IF clipboardElements = <<>> THEN newElements
  ELSE LET clipboardElement == Head(clipboardElements)
           pixel == clipboardElement.bbox.pixel
           newBbox == createBBox([x |-> pixel.x + pasteOffset,
                                  y |-> pixel.y + pasteOffset,
                                  w |-> pixel.w,
                                  h |-> pixel.h],
                                 [w |-> imageSize.width, h |-> imageSize.height])
           newElement == createElementWith(newBbox, elements \o newElements,
                                           clipboardElement, Head(ids), t)
       IN pasteNewElements(Tail(clipboardElements), elements,
                           Append(newElements, newElement), imageSize, Tail(ids), t)

\* a variant of pasteElements that leaves the clipboard as the copy made it
pasteElementsKeepClipboard(s, ids, t) ==
  LET imageSize == getImageSize(s.project)
  IN IF Len(s.clipboard.elements) = 0 \/ imageSize = NULL THEN s
     ELSE LET newElements == pasteNewElements(s.clipboard.elements, s.elements, <<>>,
                                              Val(imageSize), ids, t)
              newIds == [i \in DOMAIN newElements |-> newElements[i].id]
          IN syncElementsToProject(
               [s EXCEPT !.elements = s.elements \o newElements,
                         !.selection.selectedIds = newIds], t)

pasteElements(s, ids, t) ==
  LET imageSize == getImageSize(s.project)
  IN IF Len(s.clipboard.elements) = 0 \/ imageSize = NULL THEN s
     ELSE LET newElements == pasteNewElements(s.clipboard.elements, s.elements, <<>>,
                                              Val(imageSize), ids, t)
              newIds == [i \in DOMAIN newElements |-> newElements[i].id]
          IN syncElementsToProject(
               [s EXCEPT !.elements = s.elements \o newElements,
                         !.selection.selectedIds = newIds,
                         !.clipboard.elements = JSONClone(newElements)], t)

startDrawing(s, point) ==
  [s EXCEPT !.drawing = [isDrawing |-> TRUE, startPoint |-> Some(point),
                         currentPoint |-> Some(point)]]

updateDrawing(s, point) ==
  IF s.drawing.isDrawing THEN [s EXCEPT !.drawing.currentPoint = Some(point)] ELSE s

\* id is the uuid createElement draws when an element is created
finishDrawing(s, id, t) ==
  LET imageSize == getImageSize(s.project)
  IN IF ~s.drawing.isDrawing \/ s.drawing.startPoint = NULL
        \/ s.drawing.currentPoint = NULL \/ imageSize = NULL
     THEN [s EXCEPT !.drawing = initialDrawingState]
     ELSE LET startPoint == Val(s.drawing.startPoint)
              currentPoint == Val(s.drawing.currentPoint)
              x == Min(startPoint.x, currentPoint.x)
              y == Min(startPoint.y, currentPoint.y)
              w == Abs(currentPoint.x - startPoint.x)
              h == Abs(currentPoint.y - startPoint.y)
          IN IF w < minAnnotationSize \/ h < minAnnotationSize
             THEN [s EXCEPT !.drawing = initialDrawingState]
             ELSE LET bbox == createBBox([x |-> x, y |-> y, w |-> w, h |-> h],
                                         [w |-> Val(imageSize).width,
                                          h |-> Val(imageSize).height])
                      element == createElement(bbox, s.elements, "", id, t)
                  IN syncElementsToProject(
                       [s EXCEPT !.elements = Append(s.elements, element),
                                 !.drawing = initialDrawingState,
                                 !.selection.selectedIds = <<element.id>>], t)

cancelDrawing(s) == [s EXCEPT !.drawing = initialDrawingState]

setScale(s, scale) ==
  [s EXCEPT !.viewport.scale =
              numMin(numMax(scale, s.viewport.minScale), s.viewport.maxScale)]

setOffset(s, x, y) ==
  [s EXCEPT !.viewport.offsetX = x, !.viewport.offsetY = y]

setViewport(s, scale, offsetX, offsetY) ==
  [s EXCEPT !.viewport.scale =
              numMin(numMax(scale, s.viewport.minScale), s.viewport.maxScale),
            !.viewport.offsetX = offsetX,
            !.viewport.offsetY = offsetY]

setContainerSize(s, width, height) ==
  [s EXCEPT !.containerSize = [width |-> width, height |-> height]]

\* the viewport after zooming to newScale towards the screen point (px, py)
zoomTowards(viewport, newScale, px, py) ==
  LET worldX == numDiv(numSub(px, viewport.offsetX), viewport.scale)
      worldY == numDiv(numSub(py, viewport.offsetY), viewport.scale)
  IN [viewport EXCEPT !.scale = newScale,
                      !.offsetX = numSub(px, numMul(worldX, newScale)),
                      !.offsetY = numSub(py, numMul(worldY, newScale))]

\* a variant of zoomIn without the check of the container size
zoomInAnyContainer(s) ==
  LET newScale == numMin(numMul(s.viewport.scale, zoomFactor), s.viewport.maxScale)
      centerX == numDiv(Num(s.containerSize.width), Num(2))
      centerY == numDiv(Num(s.containerSize.height), Num(2))
  IN [s EXCEPT !.viewport = zoomTowards(s.viewport, newScale, centerX, centerY)]

zoomIn(s) ==
  IF s.containerSize.width = 0 \/ s.containerSize.height = 0 THEN s
  ELSE LET newScale == numMin(numMul(s.viewport.scale, zoomFactor), s.viewport.maxScale)
           centerX == numDiv(Num(s.containerSize.width), Num(2))
           centerY == numDiv(Num(s.containerSize.height), Num(2))
       IN [s EXCEPT !.viewport = zoomTowards(s.viewport, newScale, centerX, centerY)]

zoomOut(s) ==
  IF s.containerSize.width = 0 \/ s.containerSize.height = 0 THEN s
  ELSE LET newScale == numMax(numDiv(s.viewport.scale, zoomFactor), s.viewport.minScale)
           centerX == numDiv(Num(s.containerSize.width), Num(2))
           centerY == numDiv(Num(s.containerSize.height), Num(2))
       IN [s EXCEPT !.viewport = zoomTowards(s.viewport, newScale, centerX, centerY)]

zoomToFit(s) ==
  LET imageSize == getImageSize(s.project)
  IN IF imageSize = NULL THEN s
     ELSE IF s.containerSize.width = 0 \/ s.containerSize.height = 0 THEN s
     ELSE LET containerWidth == Num(s.containerSize.width)
              containerHeight == Num(s.containerSize.height)
              imageWidth == Num(Val(imageSize).width)
              imageHeight == Num(Val(imageSize).height)
              scaleX == numDiv(containerWidth, imageWidth)
              scaleY == numDiv(containerHeight, imageHeight)
              scale == numMul(numMin(scaleX, scaleY), fitPadding)
              clamped == numMin(numMax(scale, s.viewport.minScale), s.viewport.maxScale)
          IN [s EXCEPT !.viewport.scale = clamped,
                       !.viewport.offsetX =
                         numDiv(numSub(containerWidth, numMul(imageWidth, clamped)), Num(2)),
                       !.viewport.offsetY =
                         numDiv(numSub(containerHeight, numMul(imageHeight, clamped)), Num(2))]

centerAt100(s) ==
  LET imageSize == getImageSize(s.project)
  IN IF imageSize = NULL THEN s
     ELSE IF s.containerSize.width = 0 \/ s.containerSize.height = 0 THEN s
     ELSE [s EXCEPT !.viewport.scale = Num(1),
                    !.viewport.offsetX =
                      numDiv(Num(s.containerSize.width - Val(imageSize).width), Num(2)),
                    !.viewport.offsetY =
                      numDiv(Num(s.containerSize.height - Val(imageSize).height), Num(2))]

resetViewport(s) == [s EXCEPT !.viewport = initialViewportState]

setActiveTool(s, tool) ==
  IF tool # "edit"
  THEN [s EXCEPT !.activeTool = tool, !.drawing = initialDrawingState]
  ELSE [s EXCEPT !.activeTool = tool]

(***************************************************************************)
(* The temporal (zundo) middleware as configured at annotation-store.ts    *)
(* 521-533.  c is the record of the store state, the temporal store's      *)
(* pastStates and futureStates, and the closure th of the throttled        *)
(* _handleSet.                                                             *)
(***************************************************************************)
\* a variant of partialize that also tracks the viewport
partializeWithViewport(s) == [elements |-> s.elements, viewport |-> s.viewport]

partialize(s) == [elements |-> s.elements]

\* a variant of equality that finds no two snapshots equal
equalityNever(pastState, currentState) == FALSE

\* JSON.stringify(pastState.elements) === JSON.stringify(currentState.elements)
equality(pastState, currentState) == pastState.elements = currentState.elements

\* a variant of _handleSet that never drops the oldest snapshot
handleSetImplUnbounded(c, pastState) ==
  [c EXCEPT !.pastStates = Append(c.pastStates, pastState), !.futureStates = <<>>]

\* _handleSet(pastState, replace, currentState, deltaState) of the temporal store
handleSetImpl(c, pastState) ==
  LET kept == IF Len(c.pastStates) >= limit THEN Tail(c.pastStates) ELSE c.pastStates
  IN [c EXCEPT !.pastStates = Append(kept, pastState), !.futureStates = <<>>]

\* handleSet: (handleSet) => throttle(handleSet, 500, {leading: true, trailing: true})
handleSet(c, pastState, currentState, t) ==
  LET r == throttled(c.th, [pastState |-> pastState, currentState |-> currentState], t)
      c1 == [c EXCEPT !.th = r.th]
  IN IF r.invoked # NULL THEN handleSetImpl(c1, Val(r.invoked).pastState) ELSE c1

\* the trailing timer of the throttled _handleSet
handleSetTimer(c, t) ==
  LET r == timerCallback(c.th, t)
      c1 == [c EXCEPT !.th = r.th]
  IN IF r.invoked # NULL THEN handleSetImpl(c1, Val(r.invoked).pastState) ELSE c1

\* the condition of the self-heal subscription: a project with an imageUrl
\* and no image
needsImage(s) == s.project # NULL /\ Val(s.project).imageUrl # "" /\ s.image = NULL

\* a variant of the subscription that does not look at the flag
selfHealUnguarded(s, h) ==
  IF ~needsImage(s) THEN h
  ELSE [isLoadingImage |-> TRUE,
        imageLoads |-> Append(h.imageLoads,
                              [url |-> Val(s.project).imageUrl, status |-> "pending",
                               finished |-> FALSE])]

\* useAnnotationStore.subscribe(...): the listener called with the state s.
\* h holds isLoadingImage and the promises started; a promise is pending,
\* fulfilled (the then callback has run) or rejected (the catch callback has
\* run), and finished once its finally callback has run
selfHeal(s, h) ==
  IF ~needsImage(s) \/ h.isLoadingImage THEN h
  ELSE [isLoadingImage |-> TRUE,
        imageLoads |-> Append(h.imageLoads,
                              [url |-> Val(s.project).imageUrl, status |-> "pending",
                               finished |-> FALSE])]

\* the set / setState the middleware hands to the store: pastState is taken
\* before the update; a changed partialized state is passed to handleSet
set(c, nextState, t) ==
  LET pastState == partialize(c.state)
      currentState == partialize(nextState)
      c1 == [c EXCEPT !.state = nextState]
  IN IF equality(pastState, currentState) THEN c1
     ELSE handleSet(c1, pastState, currentState, t)

\* the store's own set(partial): the fields of partial are merged into s
merge(s, partial) ==
  [f \in DOMAIN s |-> IF f \in DOMAIN partial THEN partial[f] ELSE s[f]]

\* temporal.undo(): the last past state is applied with the store's own set
\* (no capture) and the current state is pushed on futureStates
undo(c) ==
  IF Len(c.pastStates) = 0 THEN c
  ELSE LET currentState == partialize(c.state)
           nextState == c.pastStates[Len(c.pastStates)]
       IN [c EXCEPT !.state = merge(c.state, nextState),
                    !.pastStates = SubSeq(c.pastStates, 1, Len(c.pastStates) - 1),
                    !.futureStates = Append(c.futureStates, currentState)]

\* temporal.redo()
redo(c) ==
  IF Len(c.futureStates) = 0 THEN c
  ELSE LET currentState == partialize(c.state)
           nextState == c.futureStates[Len(c.futureStates)]
       IN [c EXCEPT !.state = merge(c.state, nextState),
                    !.pastStates = Append(c.pastStates, currentState),
                    !.futureStates = SubSeq(c.futureStates, 1, Len(c.futureStates) - 1)]

\* a variant of syncAfterTemporalChange that leaves the selection as it is
syncAfterTemporalChangeNoRepair(c, t) ==
  LET s == c.state
      s2 == IF s.project # NULL
            THEN [s EXCEPT !.project = Some([Val(s.project) EXCEPT !.elements = s.elements,
                                                                    !.updatedAt = t])]
            ELSE s
  IN set(c, s2, t)

syncAfterTemporalChange(c, t) ==
  LET s == c.state
      elementIds == {s.elements[i].id : i \in DOMAIN s.elements}
      validSelection == SelectSeq(s.selection.selectedIds, LAMBDA id : id \in elementIds)
      s1 == IF Len(validSelection) # Len(s.selection.selectedIds)
            THEN [s EXCEPT !.selection.selectedIds = validSelection] ELSE s
      s2 == IF s1.project # NULL
            THEN [s1 EXCEPT !.project = Some([Val(s1.project) EXCEPT !.elements = s1.elements,
                                                                      !.updatedAt = t])]
            ELSE s1
  IN set(c, s2, t)

\* a variant of undoAnnotation without the check of pastStates.length
undoAnnotationUnchecked(c, t) == syncAfterTemporalChange(undo(c), t)

undoAnnotation(c, t) ==
  IF Len(c.pastStates) = 0 THEN c
  ELSE syncAfterTemporalChange(undo(c), t)

redoAnnotation(c, t) ==
  IF Len(c.futureStates) = 0 THEN c
  ELSE syncAfterTemporalChange(redo(c), t)

(***************************************************************************)
(* lib/canvas-utils.ts                                                     *)
(***************************************************************************)
isPointInElement(point, element) ==
  LET b == element.bbox.pixel
  IN point.x >= b.x /\ point.x <= b.x + b.w /\ point.y >= b.y /\ point.y <= b.y + b.h

\* Array.prototype.sort by descending displayOrder: a stable insertion sort
RECURSIVE sortByDisplayOrderDesc(_)
sortByDisplayOrderDesc(els) ==
  IF els = <<>> THEN <<>>
  ELSE LET rest == sortByDisplayOrderDesc(SubSeq(els, 1, Len(els) - 1))
           e == els[Len(els)]
           before == SelectSeq(rest, LAMBDA a : a.displayOrder >= e.displayOrder)
           after == SelectSeq(rest, LAMBDA a : a.displayOrder < e.displayOrder)
       IN before \o <<e>> \o after

\* a variant of findElementsAtPoint that keeps the array order
findElementsAtPointUnsorted(point, elements) ==
  SelectSeq(elements, LAMBDA el : isPointInElement(point, el))

findElementsAtPoint(point, elements) ==
  sortByDisplayOrderDesc(SelectSeq(elements, LAMBDA el : isPointInElement(point, el)))

\* the first selected id whose element contains the point; NULL when none
findSelectedElementAtPoint(point, elements, selectedIds) ==
  LET hit(id) == LET i == FindIndex(elements, LAMBDA el : el.id = id)
                 IN i # 0 /\ isPointInElement(point, elements[i])
      k == FindIndex(selectedIds, hit)
  IN IF k = 0 THEN NULL
     ELSE Some(elements[FindIndex(elements, LAMBDA el : el.id = selectedIds[k])])

(***************************************************************************)
(* hooks/use-konva-snap.ts: getSnapResult (move snap)                      *)
(***************************************************************************)
Half(n) == n \div 2

\* the x positions (vertical lines) of the elements not excluded, then the image bounds
RECURSIVE elementTargetsX(_, _)
\* a variant of elementTargetsX that takes the edges of every element
elementTargetsXOfAll(elements, excludeIds) ==
  [k \in 1..(3 * Len(elements)) |->
     LET b == elements[((k - 1) \div 3) + 1].bbox.pixel
     IN <<b.x, b.x + b.w, b.x + Half(b.w)>>[((k - 1) % 3) + 1]]

elementTargetsX(elements, excludeIds) ==
  IF elements = <<>> THEN <<>>
  ELSE LET b == Head(elements).bbox.pixel
           own == IF Head(elements).id \in excludeIds THEN <<>>
                  ELSE <<b.x, b.x + b.w, b.x + Half(b.w)>>
       IN own \o elementTargetsX(Tail(elements), excludeIds)

RECURSIVE elementTargetsY(_, _)
elementTargetsY(elements, excludeIds) ==
  IF elements = <<>> THEN <<>>
  ELSE LET b == Head(elements).bbox.pixel
           own == IF Head(elements).id \in excludeIds THEN <<>>
                  ELSE <<b.y, b.y + b.h, b.y + Half(b.h)>>
       IN own \o elementTargetsY(Tail(elements), excludeIds)

\* a variant of the comparison of a distance with the threshold that admits
\* the threshold itself
closerOrEqual(distance, minDistance) == distance <= minDistance

\* the comparison of a distance with the threshold, or with the smallest
\* distance so far
closer(distance, minDistance) == distance < minDistance

\* a variant of the offset that moves every check point as the leading edge
snapOffsetLeading(i, boxSize) == 0

\* the offset that brings check point i (0: leading edge, 1: trailing edge,
\* 2: center) onto the target
snapOffset(i, boxSize) == IF i = 0 THEN 0 ELSE IF i = 1 THEN -boxSize ELSE -Half(boxSize)

\* the two nested loops of getSnapResult over check points and targets, as
\* one scan of the pairs in loop order; k is the pair's position, best the
\* snap found so far (NULL: none) and minDistance its distance
RECURSIVE bestSnapScan(_, _, _, _, _, _)
bestSnapScan(points, targets, boxSize, k, best, minDistance) ==
  IF k > Len(points) * Len(targets) THEN best
  ELSE LET i == (k - 1) \div Len(targets)
           target == targets[((k - 1) % Len(targets)) + 1]
           distance == Abs(points[i + 1] - target)
           offset == snapOffset(i, boxSize)
       IN IF closer(distance, minDistance)
          THEN bestSnapScan(points, targets, boxSize, k + 1,
                            Some([value |-> target + offset, offset |-> target]), distance)
          ELSE bestSnapScan(points, targets, boxSize, k + 1, best, minDistance)

\* a variant of the guideline that is put where the snapped point is
snapGuidelineAtValue(type, bestSnap, end) ==
  [type |-> type, position |-> bestSnap.value, start |-> 0, end |-> end]

\* the guideline getSnapResult pushes for an axis that has a best snap:
\* bestSnap.offset is the target's coordinate
snapGuideline(type, bestSnap, end) ==
  [type |-> type, position |-> bestSnap.offset, start |-> 0, end |-> end]

\* movingBox is NULL or <<[x, y, w, h]>>; the result holds the snapped point
\* and the guidelines handed to setActiveGuidelines
getSnapResult(point, elements, excludeIds, imageWidth, imageHeight, movingBox) ==
  LET verticalTargets == elementTargetsX(elements, excludeIds)
                           \o <<0, Half(imageWidth), imageWidth>>
      horizontalTargets == elementTargetsY(elements, excludeIds)
                             \o <<0, Half(imageHeight), imageHeight>>
      xPoints == IF movingBox # NULL
                 THEN <<point.x, point.x + Val(movingBox).w, point.x + Half(Val(movingBox).w)>>
                 ELSE <<point.x>>
      yPoints == IF movingBox # NULL
                 THEN <<point.y, point.y + Val(movingBox).h, point.y + Half(Val(movingBox).h)>>
                 ELSE <<point.y>>
      boxW == IF movingBox # NULL THEN Val(movingBox).w ELSE 0
      boxH == IF movingBox # NULL THEN Val(movingBox).h ELSE 0
      bestXSnap == bestSnapScan(xPoints, verticalTargets, boxW, 1, NULL, threshold)
      bestYSnap == bestSnapScan(yPoints, horizontalTargets, boxH, 1, NULL, threshold)
      gx == IF bestXSnap # NULL
            THEN <<snapGuideline("vertical", Val(bestXSnap), imageHeight)>>
            ELSE <<>>
      gy == IF bestYSnap # NULL
            THEN <<snapGuideline("horizontal", Val(bestYSnap), imageWidth)>>
            ELSE <<>>
  IN [point |-> [x |-> IF bestXSnap # NULL THEN Val(bestXSnap).value ELSE point.x,
                 y |-> IF bestYSnap # NULL THEN Val(bestYSnap).value ELSE point.y],
      guidelines |-> gx \o gy]

(***************************************************************************)
(* hooks/use-konva-snap.ts: getResizeSnapResult (resize snap)              *)
(***************************************************************************)
\* one loop of getResizeSnapResult over the targets of an axis, for the two
\* edges of that axis (left and right, or top and bottom): acc holds the two
\* snaps found so far (NULL: none) and the guidelines pushed so far
RECURSIVE resizeSnapScan(_, _, _, _, _, _)
resizeSnapScan(targets, k, edgeA, edgeB, type, acc) ==
  IF k > Len(targets) THEN acc
  ELSE LET target == targets[k]
           g == [type |-> type, position |-> target]
           acc1 == IF acc.a = NULL /\ closer(Abs(edgeA - target), threshold)
                   THEN [acc EXCEPT !.a = Some(target), !.guidelines = Append(@, g)]
                   ELSE acc
           acc2 == IF acc1.b = NULL /\ closer(Abs(edgeB - target), threshold)
                   THEN [acc1 EXCEPT !.b = Some(target), !.guidelines = Append(@, g)]
                   ELSE acc1
       IN resizeSnapScan(targets, k + 1, edgeA, edgeB, type, acc2)

\* a variant of getResizeSnapResult's targets with the image bounds last
resizeTargetsBoundsLast(bounds, elementTargets) == elementTargets \o bounds

\* the targets of an axis: the image bounds, then the elements'
resizeTargets(bounds, elementTargets) == bounds \o elementTargets

\* the result holds the four snaps (NULL: none), the guidelines returned and
\* those handed to setActiveGuidelines
getResizeSnapResult(edges, elements, excludeId, imageWidth, imageHeight) ==
  LET verticalTargets == resizeTargets(<<0, Half(imageWidth), imageWidth>>,
                                       elementTargetsX(elements, {excludeId}))
      horizontalTargets == resizeTargets(<<0, Half(imageHeight), imageHeight>>,
                                         elementTargetsY(elements, {excludeId}))
      none == [a |-> NULL, b |-> NULL, guidelines |-> <<>>]
      v == resizeSnapScan(verticalTargets, 1, edges.left, edges.right, "vertical", none)
      h == resizeSnapScan(horizontalTargets, 1, edges.top, edges.bottom, "horizontal",
                          [none EXCEPT !.guidelines = v.guidelines])
      guidelines == h.guidelines
  IN [snapLeft |-> v.a, snapRight |-> v.b, snapTop |-> h.a, snapBottom |-> h.b,
      guidelines |-> guidelines,
      active |-> [i \in DOMAIN guidelines |->
                    [type |-> guidelines[i].type, position |-> guidelines[i].position,
                     start |-> 0,
                     end |-> IF guidelines[i].type = "vertical" THEN imageHeight
                             ELSE imageWidth]]]

(***************************************************************************)
(* State                                                                   *)
(***************************************************************************)
VARIABLES
  state,            \* useAnnotationStore's state (annotation-store.ts initialState)
  pastStates,       \* temporal store: snapshots undo goes back to, oldest first
  futureStates,     \* temporal store: snapshots redo goes forward to
  timeoutId,        \* closure of the throttled _handleSet: the pending timer
  lastCallTime,     \* closure of the throttled _handleSet
  lastArgs,         \* closure of the throttled _handleSet
  mode,             \* useCanvasInteraction: CanvasMode
  drawCurrent,      \* useCanvasInteraction: draw-preview point
  activeGuidelines, \* useUIStore: snap guidelines
  now,              \* Date.now()
  uuid,             \* number of uuids drawn by uuidv4()
  lastOp,           \* observation: the handler that ran last
  steps,            \* observation: number of handler runs
  loads,            \* observation: number of loadProject calls
  issued,           \* observation: serialNumbers of the elements the store has held
                    \* since the last load, clear, setElements, undo or redo
  pinchRef,         \* KonvaStage: pinchRef.current (NULL outside a pinch)
  konva,            \* KonvaStage: the Konva stage's own scale and position
  pinched,          \* observation: a second finger has touched down while the
                    \* mode was drawing or dragging
  isLoadingImage,   \* annotation-store.ts: the in-flight flag of the self-heal subscription
  imageLoads,       \* the promises of the loadImageFromUrl calls the subscription started
  occurrenceLoads,  \* observation: loads started since the store last began to
                    \* hold a project without its image
  calls,            \* throttle specification: calls of the throttled function
  fnLog             \* throttle specification: the invocations of fn

storeVars == <<state, pastStates, futureStates>>
throttleVars == <<timeoutId, lastCallTime, lastArgs>>
healVars == <<isLoadingImage, imageLoads, occurrenceLoads>>
touchVars == <<pinchRef, konva, pinched>>
uiVars == <<mode, drawCurrent, activeGuidelines>>
vars == <<state, pastStates, futureStates, timeoutId, lastCallTime, lastArgs,
          mode, drawCurrent, activeGuidelines, now, uuid, lastOp, steps, loads,
          issued, pinchRef, konva, pinched, isLoadingImage, imageLoads, occurrenceLoads,
          calls, fnLog>>

\* the store, its history and the throttle closure, as the record the
\* middleware operators work on
Ctx ==
  [state |-> state, pastStates |-> pastStates, futureStates |-> futureStates,
   th |-> [timeoutId |-> timeoutId, lastCallTime |-> lastCallTime, lastArgs |-> lastArgs]]

CommitStore(c) ==
  /\ state' = c.state
  /\ pastStates' = c.pastStates
  /\ futureStates' = c.futureStates
  /\ timeoutId' = c.th.timeoutId
  /\ lastCallTime' = c.th.lastCallTime
  /\ lastArgs' = c.th.lastArgs

\* the flag and the promises of the self-heal subscription
Heal == [isLoadingImage |-> isLoadingImage, imageLoads |-> imageLoads]

\* the store calls its subscribers when an update changed the state
notified(nextState) == IF nextState # state THEN selfHeal(nextState, Heal) ELSE Heal

\* the loads of the present occurrence, after an update that left nextState and h
occurrenceAfter(nextState, h) ==
  IF ~needsImage(nextState) THEN 0
  ELSE (IF needsImage(state) THEN occurrenceLoads ELSE 0)
         + (Len(h.imageLoads) - Len(imageLoads))

\* <Stage x y scaleX scaleY>: a render hands the stage the props that changed
rendered(nextState) ==
  [scale |-> IF nextState.viewport.scale # state.viewport.scale
             THEN nextState.viewport.scale ELSE konva.scale,
   x |-> IF nextState.viewport.offsetX # state.viewport.offsetX
         THEN nextState.viewport.offsetX ELSE konva.x,
   y |-> IF nextState.viewport.offsetY # state.viewport.offsetY
         THEN nextState.viewport.offsetY ELSE konva.y]

Commit(c) ==
  /\ CommitStore(c)
  /\ pinchRef' = pinchRef
  /\ konva' = rendered(c.state)
  /\ pinched' = pinched
  /\ isLoadingImage' = notified(c.state).isLoadingImage
  /\ imageLoads' = notified(c.state).imageLoads
  /\ occurrenceLoads' = occurrenceAfter(c.state, notified(c.state))

\* lastOp tells undoAnnotation and redoAnnotation from the other handlers,
\* which all leave the same record whatever their name
Op(name) == [op |-> "other", dropped |-> 0, noop |-> FALSE]

Serials(elements) == {elements[i].serialNumber : i \in DOMAIN elements}
Ids(elements) == {elements[i].id : i \in DOMAIN elements}

\* one more handler run: at most MaxSteps in a run
Step ==
  /\ steps < MaxSteps
  /\ steps' = steps + 1

\* a handler run that leaves the store in c
\* the end of a gesture also records the mode and the preview point it ended
OpFrom(name) ==
  [op |-> name, dropped |-> 0, noop |-> FALSE, mode |-> mode, drawCurrent |-> drawCurrent]

EditAs(c, op) ==
  /\ Step
  /\ Commit(c)
  /\ lastOp' = op
  /\ issued' = issued \cup Serials(c.state.elements)
  /\ UNCHANGED <<now, loads, calls, fnLog>>

Edit(c, name) == EditAs(c, Op(name))

(***************************************************************************)
(* Inputs                                                                  *)
(***************************************************************************)
\* a project file with two overlapping annotations, and an empty one of another size
FileElement(id, serialNumber, displayOrder, pixel, imageSize) ==
  [id |-> id, label |-> "", bbox |-> createBBox(pixel, imageSize),
   serialNumber |-> serialNumber, displayOrder |-> displayOrder,
   createdAt |-> 0, updatedAt |-> 0]

ProjectA ==
  [id |-> "A", imageUrl |-> "a.png", imageWidth |-> 40, imageHeight |-> 24,
   elements |-> <<FileElement(101, 1, 0, [x |-> 0, y |-> 0, w |-> 12, h |-> 12],
                              [w |-> 40, h |-> 24]),
                  FileElement(102, 2, 1, [x |-> 6, y |-> 6, w |-> 12, h |-> 12],
                              [w |-> 40, h |-> 24])>>,
   updatedAt |-> 0]

ProjectB ==
  [id |-> "B", imageUrl |-> "b.png", imageWidth |-> 24, imageHeight |-> 40,
   elements |-> <<>>, updatedAt |-> 0]

Projects == {ProjectA, ProjectB}

\* pointer positions in image coordinates (stage.getRelativePointerPosition())
PointerPositions == {[x |-> 8, y |-> 10], [x |-> 30, y |-> 22]}

(***************************************************************************)
(* Project actions                                                         *)
(***************************************************************************)
\* use-file-input-config: loadProject(result.data.project, result.data.image)
LoadProject(p) ==
  /\ Step
  /\ Commit(set(Ctx, loadProject(state, p, Some(p.imageUrl)), now))
  /\ lastOp' = Op("loadProject")
  /\ loads' = loads + 1
  /\ issued' = Serials(p.elements)
  /\ UNCHANGED <<uiVars, now, uuid, calls, fnLog>>

ClearProject ==
  /\ state.project # NULL
  /\ Step
  /\ Commit(set(Ctx, clearProject(state), now))
  /\ lastOp' = Op("clearProject")
  /\ issued' = {}
  /\ UNCHANGED <<uiVars, now, uuid, loads, calls, fnLog>>

(***************************************************************************)
(* hooks/use-canvas-interaction.ts                                         *)
(***************************************************************************)
CanvasImageSize == getImageSize(state.project)

\* a variant of clearActiveGuidelines that leaves the guidelines
clearActiveGuidelinesKept == activeGuidelines

\* store/ui-store.ts clearActiveGuidelines: the new activeGuidelines
clearActiveGuidelines == <<>>

\* handleMouseDown; pos is NULL when the stage gives no pointer position
HandleMouseDown(pos, isAltPressed, isTransformerTarget) ==
  LET s == state
      dragging(el) == [type |-> "dragging", elementId |-> el.id,
                       offset |-> [x |-> Val(pos).x - el.bbox.pixel.x,
                                   y |-> Val(pos).y - el.bbox.pixel.y]]
      ignored == s.activeTool # "edit" \/ CanvasImageSize = NULL
                 \/ isTransformerTarget \/ pos = NULL
      selectedHit == findSelectedElementAtPoint(Val(pos), s.elements, s.selection.selectedIds)
      elementsAtPoint == findElementsAtPoint(Val(pos), s.elements)
  IN /\ IF ignored
        THEN UNCHANGED <<state, pastStates, futureStates, throttleVars, healVars,
                         touchVars, mode, drawCurrent>>
        ELSE IF isAltPressed
        THEN /\ mode' = [type |-> "drawing", start |-> Val(pos)]
             /\ drawCurrent' = pos
             /\ UNCHANGED <<state, pastStates, futureStates, throttleVars, healVars,
                            touchVars>>
        ELSE IF selectedHit # NULL
        THEN /\ mode' = dragging(Val(selectedHit))
             /\ UNCHANGED <<state, pastStates, futureStates, throttleVars, healVars,
                            touchVars, drawCurrent>>
        ELSE IF Len(elementsAtPoint) > 0
        THEN /\ Commit(set(Ctx, selectElement(s, elementsAtPoint[1].id, FALSE), now))
             /\ mode' = dragging(elementsAtPoint[1])
             /\ UNCHANGED drawCurrent
        ELSE /\ Commit(set(Ctx, deselectAll(s), now))
             /\ mode' = [type |-> "drawing", start |-> Val(pos)]
             /\ drawCurrent' = pos
     /\ Step
     /\ lastOp' = Op("handleMouseDown")
     /\ UNCHANGED <<activeGuidelines, now, uuid, loads, issued, calls, fnLog>>

\* handleMouseMove
HandleMouseMove(pos) ==
  LET s == state
      imageSize == Val(CanvasImageSize)
      i == FindIndex(s.elements, LAMBDA el : el.id = mode.elementId)
  IN IF pos = NULL \/ CanvasImageSize = NULL \/ mode.type = "idle"
        \/ (mode.type = "dragging" /\ i = 0)
     THEN /\ Step
          /\ lastOp' = Op("handleMouseMove")
          /\ UNCHANGED <<state, pastStates, futureStates, throttleVars, healVars, touchVars, uiVars,
                         now, uuid, loads, issued, calls, fnLog>>
     ELSE IF mode.type = "drawing"
     THEN LET snapped == getSnapResult(Val(pos), s.elements, {},
                                       imageSize.width, imageSize.height, NULL)
          IN /\ Step
             /\ drawCurrent' = Some(snapped.point)
             /\ activeGuidelines' = snapped.guidelines
             /\ lastOp' = Op("handleMouseMove")
             /\ UNCHANGED <<state, pastStates, futureStates, throttleVars, healVars, touchVars, mode,
                            now, uuid, loads, issued, calls, fnLog>>
     ELSE LET element == s.elements[i]
              newX == Val(pos).x - mode.offset.x
              newY == Val(pos).y - mode.offset.y
              snapped == getSnapResult([x |-> newX, y |-> newY], s.elements,
                                       {mode.elementId}, imageSize.width, imageSize.height,
                                       Some([x |-> newX, y |-> newY,
                                             w |-> element.bbox.pixel.w,
                                             h |-> element.bbox.pixel.h]))
              bbox == createBBox([x |-> snapped.point.x, y |-> snapped.point.y,
                                  w |-> element.bbox.pixel.w, h |-> element.bbox.pixel.h],
                                 [w |-> imageSize.width, h |-> imageSize.height])
          IN /\ Edit(set(Ctx, updateElement(s, mode.elementId, [bbox |-> bbox], now), now),
                     "handleMouseMove")
             /\ activeGuidelines' = snapped.guidelines
             /\ UNCHANGED <<mode, drawCurrent, uuid>>

\* handleMouseUp: the element drawn is added and then selected (two sets)
HandleMouseUp ==
  LET s == state
      imageSize == Val(CanvasImageSize)
      start == mode.start
      cur == Val(drawCurrent)
      x == Min(start.x, cur.x)
      y == Min(start.y, cur.y)
      w == Abs(cur.x - start.x)
      h == Abs(cur.y - start.y)
      bbox == createBBox([x |-> x, y |-> y, w |-> w, h |-> h],
                         [w |-> imageSize.width, h |-> imageSize.height])
      newElement == createElement(bbox, s.elements, "", uuid + 1, now)
      c1 == set(Ctx, addElement(s, newElement, now), now)
      c2 == set(c1, selectElement(c1.state, newElement.id, FALSE), now)
  IN /\ IF CanvasImageSize # NULL /\ mode.type = "drawing" /\ drawCurrent # NULL
           /\ w >= minAnnotationSize /\ h >= minAnnotationSize
        THEN /\ uuid < MaxIds
             /\ uuid' = uuid + 1
             /\ EditAs(c2, OpFrom("handleMouseUp"))
        ELSE /\ Step
             /\ lastOp' = OpFrom("handleMouseUp")
             /\ UNCHANGED <<state, pastStates, futureStates, throttleVars, healVars, touchVars,
                            now, uuid, loads, issued, calls, fnLog>>
     /\ mode' = [type |-> "idle"]
     /\ drawCurrent' = NULL
     /\ activeGuidelines' = clearActiveGuidelines

\* a variant of nextIndex that stops at the last element
nextIndexNoWrap(currentIndex, length) ==
  IF currentIndex >= 1 THEN Min(currentIndex + 1, length) ELSE 1

\* nextIndex of handleDblClick.  Positions are 1-based and 0 is "not found":
\* (currentIndex + 1) % length in the code's 0-based positions
nextIndex(currentIndex, length) ==
  IF currentIndex >= 1 THEN (currentIndex % length) + 1 ELSE 1

\* handleDblClick
HandleDblClick(pos, isTransformerTarget) ==
  LET s == state
      elementsAtPoint == findElementsAtPoint(Val(pos), s.elements)
      selectedIds == s.selection.selectedIds
      currentIndex == IF Len(selectedIds) > 0
                      THEN FindIndex(elementsAtPoint, LAMBDA el : el.id = selectedIds[1])
                      ELSE 0
      next == nextIndex(currentIndex, Len(elementsAtPoint))
  IN /\ IF s.activeTool # "edit" \/ isTransformerTarget \/ pos = NULL
           \/ Len(elementsAtPoint) <= 1
        THEN UNCHANGED <<state, pastStates, futureStates, throttleVars, healVars,
                         touchVars>>
        ELSE Commit(set(Ctx, selectElement(s, elementsAtPoint[next].id, FALSE), now))
     /\ Step
     /\ lastOp' = [op |-> "handleDblClick", dropped |-> 0, noop |-> FALSE,
                   selectedIds |-> selectedIds]
     /\ UNCHANGED <<uiVars, now, uuid, loads, issued, calls, fnLog>>

\* a variant of clearMode that leaves the preview point
ClearModeKeepsPreview ==
  /\ Step
  /\ mode' = [type |-> "idle"]
  /\ activeGuidelines' = clearActiveGuidelines
  /\ lastOp' = OpFrom("clearMode")
  /\ UNCHANGED <<state, pastStates, futureStates, throttleVars, healVars, touchVars, drawCurrent,
                 now, uuid, loads, issued, calls, fnLog>>

\* clearMode
ClearMode ==
  /\ Step
  /\ mode' = [type |-> "idle"]
  /\ drawCurrent' = NULL
  /\ activeGuidelines' = clearActiveGuidelines
  /\ lastOp' = OpFrom("clearMode")
  /\ UNCHANGED <<state, pastStates, futureStates, throttleVars, healVars, touchVars,
                 now, uuid, loads, issued, calls, fnLog>>

(***************************************************************************)
(* components/canvas/canvas-container.tsx: arrow keys                      *)
(***************************************************************************)
\* the loop of moveSelectedElements over selection.selectedIds: elements is
\* the array read before the loop, every updateElement is one set
RECURSIVE moveSelectedLoop(_, _, _, _, _, _, _)
moveSelectedLoop(c, ids, elements, dx, dy, project, t) ==
  IF ids = <<>> THEN c
  ELSE LET id == Head(ids)
           i == FindIndex(elements, LAMBDA el : el.id = id)
       IN IF i = 0 THEN moveSelectedLoop(c, Tail(ids), elements, dx, dy, project, t)
          ELSE LET p == elements[i].bbox.pixel
                   bbox == createBBox([x |-> p.x + dx, y |-> p.y + dy, w |-> p.w, h |-> p.h],
                                      [w |-> project.imageWidth, h |-> project.imageHeight])
                   c1 == set(c, updateElement(c.state, id, [bbox |-> bbox], t), t)
               IN moveSelectedLoop(c1, Tail(ids), elements, dx, dy, project, t)

moveSelectedElements(c, key, shiftKey, t) ==
  LET s == c.state
      step == IF shiftKey THEN 10 ELSE 1
      dx == IF key = "ArrowLeft" THEN -step ELSE IF key = "ArrowRight" THEN step ELSE 0
      dy == IF key = "ArrowUp" THEN -step ELSE IF key = "ArrowDown" THEN step ELSE 0
  IN IF s.project = NULL \/ Len(s.selection.selectedIds) = 0 THEN c
     ELSE moveSelectedLoop(c, s.selection.selectedIds, s.elements, dx, dy, Val(s.project), t)

ArrowInputs == {<<"ArrowRight", FALSE>>, <<"ArrowUp", TRUE>>}

ArrowKey(key, shiftKey) ==
  /\ Edit(moveSelectedElements(Ctx, key, shiftKey, now), "moveSelectedElements")
  /\ UNCHANGED <<uiVars, uuid>>

(***************************************************************************)
(* components/canvas/annotations-layer.tsx: resize commit                  *)
(***************************************************************************)
\* a variant of handleTransformEnd that commits the live size as it is
handleTransformEndUnclamped(c, id, live, t) ==
  LET imageSize == getImageSize(c.state.project)
      bbox == createBBox([x |-> live.x, y |-> live.y, w |-> live.w, h |-> live.h],
                         [w |-> Val(imageSize).width, h |-> Val(imageSize).height])
  IN IF imageSize = NULL THEN c
     ELSE set(c, updateElement(c.state, id, [bbox |-> bbox], t), t)

\* live is the node's resolved position and size at the end of the gesture:
\* x = group.x() + node.x(), w = node.width() * node.scaleX(), and so for y, h
handleTransformEnd(c, id, live, t) ==
  LET imageSize == getImageSize(c.state.project)
      newW == Max(live.w, minAnnotationSize)
      newH == Max(live.h, minAnnotationSize)
      bbox == createBBox([x |-> live.x, y |-> live.y, w |-> newW, h |-> newH],
                         [w |-> Val(imageSize).width, h |-> Val(imageSize).height])
  IN IF imageSize = NULL THEN c
     ELSE set(c, updateElement(c.state, id, [bbox |-> bbox], t), t)

LiveBoxes == {[x |-> 2, y |-> 4, w |-> -6, h |-> 4], [x |-> 20, y |-> 0, w |-> 16, h |-> 24]}

\* the transformer is attached to the selected elements
TransformEnd(id, live) ==
  /\ id \in Range(state.selection.selectedIds)
  /\ Edit(handleTransformEnd(Ctx, id, live, now), "handleTransformEnd")
  /\ activeGuidelines' = <<>>
  /\ UNCHANGED <<mode, drawCurrent, uuid>>

(***************************************************************************)
(* hooks/use-keyboard-shortcuts.ts                                         *)
(***************************************************************************)
\* a copy of selected elements and the pastes that follow it at once record
\* the elements copied and the number of pastes since
CopyOp ==
  LET originals == SelectSeq(state.elements,
                             LAMBDA e : e.id \in Range(state.selection.selectedIds))
  IN IF originals = <<>> THEN Op("copySelectedElements")
     ELSE [op |-> "copySelectedElements", dropped |-> 0, noop |-> FALSE,
           k |-> 0, originals |-> originals]

PasteOp ==
  IF lastOp.op \in {"copySelectedElements", "pasteElements"}
  THEN [lastOp EXCEPT !.op = "pasteElements", !.k = @ + 1]
  ELSE Op("pasteElements")

KeyCopy ==
  /\ Len(state.selection.selectedIds) > 0
  /\ EditAs(set(Ctx, copySelectedElements(state), now), CopyOp)
  /\ UNCHANGED <<uiVars, uuid>>

KeyPaste ==
  LET n == Len(state.clipboard.elements)
      ids == [i \in 1..n |-> uuid + i]
      pastes == getImageSize(state.project) # NULL
  IN /\ n > 0
     /\ pastes => uuid + n <= MaxIds
     /\ uuid' = IF pastes THEN uuid + n ELSE uuid
     /\ EditAs(set(Ctx, pasteElements(state, ids, now), now), PasteOp)
     /\ UNCHANGED uiVars

KeyDelete ==
  /\ Len(state.selection.selectedIds) > 0
  /\ Edit(set(Ctx, deleteSelectedElements(state, now), now), "deleteSelectedElements")
  /\ UNCHANGED <<uiVars, uuid>>

(***************************************************************************)
(* components/panels/layer-panel.tsx                                       *)
(***************************************************************************)
LayerSelect(id, addToSelection) ==
  /\ id \in Ids(state.elements)
  /\ Edit(set(Ctx, selectElement(state, id, addToSelection), now), "selectElement")
  /\ UNCHANGED <<uiVars, uuid>>

\* handleDragEnd: the item activeId is dropped on the item overId
LayerDragEnd(activeId, overId) ==
  LET oldIndex == FindIndex(state.elements, LAMBDA e : e.id = activeId)
      newIndex == FindIndex(state.elements, LAMBDA e : e.id = overId)
  IN /\ activeId # overId
     /\ oldIndex # 0 /\ newIndex # 0
     /\ Edit(set(Ctx, reorderElements(state, oldIndex, newIndex, now), now), "reorderElements")
     /\ UNCHANGED <<uiVars, uuid>>

(***************************************************************************)
(* Store actions with no caller in the user interface, called directly     *)
(***************************************************************************)
\* an id no element has
MissingId == 999

DeleteElement(id) ==
  /\ Edit(set(Ctx, deleteElement(state, id, now), now), "deleteElement")
  /\ UNCHANGED <<uiVars, uuid>>

MoveElement(id, deltaX, deltaY) ==
  /\ Edit(set(Ctx, moveElement(state, id, deltaX, deltaY, now), now), "moveElement")
  /\ UNCHANGED <<uiVars, uuid>>

\* setElements with the empty array or the array of the project file
SetElements(elements) ==
  /\ Step
  /\ Commit(set(Ctx, setElements(state, elements, now), now))
  /\ lastOp' = Op("setElements")
  /\ issued' = Serials(elements)
  /\ UNCHANGED <<uiVars, now, uuid, loads, calls, fnLog>>

(***************************************************************************)
(* Store actions for the viewport, the container, the tool and the drawing *)
(* state, called directly                                                  *)
(***************************************************************************)
\* a store action that leaves the elements alone
StoreCall(nextState, name) ==
  /\ Step
  /\ Commit(set(Ctx, nextState, now))
  /\ lastOp' = Op(name)
  /\ UNCHANGED <<uiVars, now, uuid, loads, issued, calls, fnLog>>

SetViewport(scale, offsetX, offsetY) ==
  StoreCall(setViewport(state, scale, offsetX, offsetY), "setViewport")

ResetViewport == StoreCall(resetViewport(state), "resetViewport")

SetContainerSize(width, height) ==
  StoreCall(setContainerSize(state, width, height), "setContainerSize")

SetActiveTool(tool) == StoreCall(setActiveTool(state, tool), "setActiveTool")

StartDrawing(point) == StoreCall(startDrawing(state, point), "startDrawing")

UpdateDrawing(point) == StoreCall(updateDrawing(state, point), "updateDrawing")

CancelDrawing == StoreCall(cancelDrawing(state), "cancelDrawing")

\* finishDrawing draws a uuid when it creates an element
FinishDrawing ==
  LET next == finishDrawing(state, uuid + 1, now)
      creates == Len(next.elements) > Len(state.elements)
  IN /\ creates => uuid < MaxIds
     /\ uuid' = IF creates THEN uuid + 1 ELSE uuid
     /\ Edit(set(Ctx, next, now), "finishDrawing")
     /\ UNCHANGED uiVars

ToolModes == {"edit", "pan"}

SetScale(scale) == StoreCall(setScale(state, scale), "setScale")

ZoomIn == StoreCall(zoomIn(state), "zoomIn")

ZoomOut == StoreCall(zoomOut(state), "zoomOut")

ZoomToFit == StoreCall(zoomToFit(state), "zoomToFit")

CenterAt100 == StoreCall(centerAt100(state), "centerAt100")

(***************************************************************************)
(* components/canvas/konva-stage.tsx: the wheel and the pinch gesture.     *)
(* The stage is drawn with the store's viewport: stageScale and stagePos   *)
(* are viewport.scale and the viewport offsets.                            *)
(***************************************************************************)
\* Math.sqrt of a perfect square
Sqrt(n) == CHOOSE r \in 0..n : r * r = n

getDistance(p1, p2) ==
  Num(Sqrt((p2.x - p1.x) * (p2.x - p1.x) + (p2.y - p1.y) * (p2.y - p1.y)))

getCenter(p1, p2) ==
  [x |-> numDiv(Num(p1.x + p2.x), Num(2)), y |-> numDiv(Num(p1.y + p2.y), Num(2))]

\* Ctrl/Meta + wheel zooms towards the pointer, the plain wheel pans
handleWheel(s, shouldZoom, deltaX, deltaY, pointer) ==
  IF shouldZoom
  THEN LET factor == IF deltaY > 0 THEN <<9, 10>> ELSE <<11, 10>>
           newScale == numMin(numMax(numMul(s.viewport.scale, factor), minScale), maxScale)
           v == zoomTowards(s.viewport, newScale, Num(pointer.x), Num(pointer.y))
       IN setViewport(s, newScale, v.offsetX, v.offsetY)
  ELSE setOffset(s, numSub(s.viewport.offsetX, Num(deltaX)),
                    numSub(s.viewport.offsetY, Num(deltaY)))

\* handleTouchMove with two touches p1 and p2, for a pinch that started with
\* the touches initialDistance apart: the scale and position it puts on the stage
handleTouchMove(viewport, initialDistance, p1, p2) ==
  LET scaleRatio == numDiv(getDistance(p1, p2), initialDistance)
      newScale == numMin(numMax(numMul(viewport.scale, scaleRatio), minScale), maxScale)
      center == getCenter(p1, p2)
  IN zoomTowards(viewport, newScale, center.x, center.y)

\* a variant of handleTouchEnd that hands over the scale alone
handleTouchEndScaleOnly(s, live) == setScale(s, live.scale)

\* handleTouchEnd of a pinch: the stage's scale and position go to the store
handleTouchEnd(s, live) == setViewport(s, live.scale, live.offsetX, live.offsetY)

(***************************************************************************)
(* Undo, redo, the clock and the trailing timer                            *)
(***************************************************************************)
\* empty: the handler found no snapshot to go to
TemporalOp(name, c, empty) ==
  [op |-> name,
   dropped |-> Len(state.selection.selectedIds) - Len(c.state.selection.selectedIds),
   noop |-> empty]

UndoAnnotation ==
  LET c == undoAnnotation(Ctx, now)
  IN /\ Step
     /\ Commit(c)
     /\ lastOp' = TemporalOp("undoAnnotation", c, Len(pastStates) = 0)
     /\ issued' = Serials(c.state.elements)
     /\ UNCHANGED <<uiVars, now, uuid, loads, calls, fnLog>>

RedoAnnotation ==
  LET c == redoAnnotation(Ctx, now)
  IN /\ Step
     /\ Commit(c)
     /\ lastOp' = TemporalOp("redoAnnotation", c, Len(futureStates) = 0)
     /\ issued' = Serials(c.state.elements)
     /\ UNCHANGED <<uiVars, now, uuid, loads, calls, fnLog>>

\* the trailing timer of the throttled _handleSet fires once it is due
HandleSetTimer ==
  /\ timeoutId # NULL
  /\ now >= Val(timeoutId)
  /\ Commit(handleSetTimer(Ctx, now))
  /\ lastOp' = Op("timer")
  /\ UNCHANGED <<uiVars, now, uuid, steps, loads, issued, calls, fnLog>>

\* time passes between two handler runs
Tick ==
  /\ now < StartTime + MaxTicks * wait
  /\ now' = now + wait
  /\ UNCHANGED <<state, pastStates, futureStates, throttleVars, healVars, touchVars, uiVars,
                 uuid, lastOp, steps, loads, issued, calls, fnLog>>

(***************************************************************************)
(* The editing specification                                               *)
(***************************************************************************)
\* the store and its middleware after construction
initialCtx ==
  [state |-> initialState, pastStates |-> <<>>, futureStates |-> <<>>,
   th |-> initialThrottle]

\* the page just opened, or opened and the file of ProjectA loaded
loadedCtx == set(initialCtx, loadProject(initialState, ProjectA, Some(ProjectA.imageUrl)),
                 StartTime)

InitUi ==
  /\ pinchRef = NULL
  /\ pinched = FALSE
  /\ konva = [scale |-> initialViewportState.scale, x |-> initialViewportState.offsetX,
              y |-> initialViewportState.offsetY]
  /\ isLoadingImage = FALSE
  /\ imageLoads = <<>>
  /\ occurrenceLoads = 0
  /\ mode = [type |-> "idle"]
  /\ drawCurrent = NULL
  /\ activeGuidelines = <<>>
  /\ now = StartTime
  /\ uuid = 0
  /\ lastOp = Op("init")
  /\ steps = 0
  /\ calls = 0
  /\ fnLog = <<>>

InitCtx(c) ==
  /\ state = c.state
  /\ pastStates = c.pastStates
  /\ futureStates = c.futureStates
  /\ timeoutId = c.th.timeoutId
  /\ lastCallTime = c.th.lastCallTime
  /\ lastArgs = c.th.lastArgs

Init ==
  /\ InitUi
  /\ \/ InitCtx(initialCtx) /\ loads = 0 /\ issued = {}
     \/ InitCtx(loadedCtx) /\ loads = 1 /\ issued = Serials(ProjectA.elements)

Next ==
  \/ \E p \in Projects : LoadProject(p)
  \/ ClearProject
  \/ \E pos \in PointerPositions, alt \in BOOLEAN : HandleMouseDown(Some(pos), alt, FALSE)
  \/ \E pos \in PointerPositions : HandleMouseMove(Some(pos))
  \/ HandleMouseUp
  \/ ClearMode
  \/ \E a \in ArrowInputs : ArrowKey(a[1], a[2])
  \/ \E id \in Ids(state.elements), live \in LiveBoxes : TransformEnd(id, live)
  \/ KeyCopy
  \/ KeyPaste
  \/ KeyDelete
  \/ \E id \in Ids(state.elements), add \in BOOLEAN : LayerSelect(id, add)
  \/ \E a, b \in Ids(state.elements) : LayerDragEnd(a, b)
  \/ \E id \in Ids(state.elements) : DeleteElement(id)
  \/ \E id \in Ids(state.elements) \cup {MissingId} : MoveElement(id, 2, -4)
  \/ SetElements(<<>>)
  \/ \E pos \in PointerPositions : StartDrawing(pos)
  \/ \E pos \in PointerPositions : UpdateDrawing(pos)
  \/ FinishDrawing
  \/ UndoAnnotation
  \/ RedoAnnotation
  \/ HandleSetTimer
  \/ Tick

Spec == Init /\ [][Next]_vars

(***************************************************************************)
(* The frame specification: the viewport, the tool, the container size and *)
(* the drawing state change between the edits, the undos and the redos     *)
(***************************************************************************)
\* ProjectA loaded, the canvas container measured, element 101 selected and copied
frameCtx ==
  LET c1 == set(loadedCtx, setContainerSize(loadedCtx.state, 80, 48), StartTime)
      c2 == set(c1, selectElement(c1.state, 101, FALSE), StartTime)
  IN set(c2, copySelectedElements(c2.state), StartTime)

InitFrame ==
  /\ InitUi
  /\ InitCtx(frameCtx)
  /\ loads = 1
  /\ issued = Serials(ProjectA.elements)

NextFrame ==
  \/ SetViewport(Num(6), Num(4), Num(-6))
  \/ ResetViewport
  \/ SetContainerSize(64, 32)
  \/ \E tool \in ToolModes : SetActiveTool(tool)
  \/ \E pos \in PointerPositions : StartDrawing(pos)
  \/ \E pos \in PointerPositions : UpdateDrawing(pos)
  \/ CancelDrawing
  \/ FinishDrawing
  \/ \E a \in ArrowInputs : ArrowKey(a[1], a[2])
  \/ KeyCopy
  \/ KeyPaste
  \/ KeyDelete
  \/ ClearProject
  \/ UndoAnnotation
  \/ RedoAnnotation
  \/ HandleSetTimer
  \/ Tick

SpecFrame == InitFrame /\ [][NextFrame]_vars

(***************************************************************************)
(* The viewport specification: the zoom buttons, the wheel, the pinch      *)
(* gesture and the store's viewport actions called with any number         *)
(***************************************************************************)
\* scales below, at, between and above minScale and maxScale, and the numbers
\* that are no scale at all
ScaleInputs ==
  {Num(0), <<1, 20>>, minScale, Num(1), <<9, 2>>, maxScale, Num(7), Infinity, NaN}

\* the two touches of a pinch: on one point, 10, 30 and 5 pixels apart
TouchPairs ==
  {<<[x |-> 10, y |-> 10], [x |-> 10, y |-> 10]>>,
   <<[x |-> 10, y |-> 10], [x |-> 20, y |-> 10]>>,
   <<[x |-> 0, y |-> 10], [x |-> 30, y |-> 10]>>,
   <<[x |-> 10, y |-> 10], [x |-> 13, y |-> 14]>>}

HandleWheel(shouldZoom, deltaX, deltaY, pointer) ==
  StoreCall(handleWheel(state, shouldZoom, deltaX, deltaY, pointer), "wheel")

\* a pinch from its touchstart (touches t0) over a touchmove (touches t1) to
\* its touchend
HandlePinch(t0, t1) ==
  LET live == handleTouchMove(state.viewport, getDistance(t0[1], t0[2]), t1[1], t1[2])
  IN StoreCall(handleTouchEnd(state, live), "pinch")

\* ProjectA loaded and the canvas container measured
viewportCtx == set(loadedCtx, setContainerSize(loadedCtx.state, 80, 48), StartTime)

InitViewport ==
  /\ InitUi
  /\ \/ InitCtx(initialCtx) /\ loads = 0 /\ issued = {}
     \/ InitCtx(viewportCtx) /\ loads = 1 /\ issued = Serials(ProjectA.elements)

NextViewport ==
  \/ \E scale \in ScaleInputs : SetScale(scale)
  \/ \E scale \in {Num(0), Num(7), NaN} : SetViewport(scale, Num(4), Num(-6))
  \/ ZoomIn
  \/ ZoomOut
  \/ ZoomToFit
  \/ CenterAt100
  \/ ResetViewport
  \/ SetContainerSize(64, 32)
  \/ \E shouldZoom \in BOOLEAN, deltaY \in {-3, 3}, pos \in PointerPositions :
       HandleWheel(shouldZoom, 0, deltaY, pos)
  \/ \E t0 \in TouchPairs, t1 \in TouchPairs : HandlePinch(t0, t1)
  \/ ClearProject
  \/ HandleSetTimer

SpecViewport == InitViewport /\ [][NextViewport]_vars

(***************************************************************************)
(* The pinch specification: the touch handlers of konva-stage.tsx one      *)
(* event at a time.  A touch event carries the number of fingers on the    *)
(* surface; a touchstart or touchmove with one finger comes with no pinch  *)
(* open, since the touchend of the finger lifted before it has closed it.  *)
(***************************************************************************)
\* the scale and position the stage has, as a viewport
stageViewport(live) ==
  [state.viewport EXCEPT !.scale = live.scale, !.offsetX = live.x, !.offsetY = live.y]

\* the pinch state both handlers store when they detect two fingers
pinchStart(p1, p2) ==
  Some([initialDistance |-> getDistance(p1, p2),
        initialScale |-> konva.scale,
        initialPos |-> [x |-> konva.x, y |-> konva.y]])

\* handleTouchStart and handleTouchMove with three touches or more: no call
TouchMany ==
  /\ Step
  /\ lastOp' = Op("handleTouch")
  /\ UNCHANGED <<storeVars, throttleVars, healVars, touchVars, uiVars, now, uuid, loads,
                 issued, calls, fnLog>>

\* handleTouchStart with two touches
TouchStartPinch(p1, p2) ==
  /\ Step
  /\ pinchRef' = pinchStart(p1, p2)
  /\ pinched' = (pinched \/ mode.type \in {"drawing", "dragging"})
  /\ lastOp' = Op("handleTouchStart")
  /\ UNCHANGED <<storeVars, throttleVars, healVars, konva, uiVars, now, uuid, loads,
                 issued, calls, fnLog>>

\* handleTouchStart with one touch: pinchRef.current = null; onMouseDown(e)
TouchStartSingle(pos) ==
  /\ pinchRef = NULL
  /\ HandleMouseDown(Some(pos), FALSE, FALSE)

\* handleTouchMove with two touches and no pinch open: the second finger has
\* just been added
TouchMoveInit(p1, p2) ==
  /\ pinchRef = NULL
  /\ Step
  /\ pinchRef' = pinchStart(p1, p2)
  /\ pinched' = (pinched \/ mode.type \in {"drawing", "dragging"})
  /\ lastOp' = [op |-> "handleTouchMove", dropped |-> 0, noop |-> FALSE]
  /\ UNCHANGED <<storeVars, throttleVars, healVars, konva, uiVars, now, uuid, loads,
                 issued, calls, fnLog>>

\* handleTouchMove with two touches during a pinch: stage.scale, stage.position
TouchMovePinch(p1, p2) ==
  /\ pinchRef # NULL
  /\ LET initial == stageViewport([scale |-> Val(pinchRef).initialScale,
                                   x |-> Val(pinchRef).initialPos.x,
                                   y |-> Val(pinchRef).initialPos.y])
         live == handleTouchMove(initial, Val(pinchRef).initialDistance, p1, p2)
     IN konva' = [scale |-> live.scale, x |-> live.offsetX, y |-> live.offsetY]
  /\ Step
  /\ lastOp' = Op("handleTouchMove")
  /\ UNCHANGED <<storeVars, throttleVars, healVars, pinchRef, pinched, uiVars, now, uuid, loads,
                 issued, calls, fnLog>>

\* handleTouchMove with one touch
TouchMoveSingle(pos) ==
  /\ pinchRef = NULL
  /\ HandleMouseMove(Some(pos))

\* handleTouchEnd of a pinch
TouchEndPinch ==
  LET c == set(Ctx, handleTouchEnd(state, stageViewport(konva)), now)
  IN /\ pinchRef # NULL
     /\ Step
     /\ CommitStore(c)
     /\ konva' = rendered(c.state)
     /\ isLoadingImage' = notified(c.state).isLoadingImage
     /\ imageLoads' = notified(c.state).imageLoads
     /\ occurrenceLoads' = occurrenceAfter(c.state, notified(c.state))
     /\ pinchRef' = NULL
     /\ pinched' = pinched
     /\ lastOp' = Op("handleTouchEnd")
     /\ UNCHANGED <<uiVars, now, uuid, loads, issued, calls, fnLog>>

\* handleTouchEnd with no pinch open: onMouseUp(e)
TouchEndSingle ==
  /\ pinchRef = NULL
  /\ HandleMouseUp

InitPinch ==
  /\ InitUi
  /\ InitCtx(viewportCtx)
  /\ loads = 1
  /\ issued = Serials(ProjectA.elements)

NextPinch ==
  \/ \E t \in TouchPairs : TouchStartPinch(t[1], t[2])
  \/ \E pos \in PointerPositions : TouchStartSingle(pos)
  \/ TouchMany
  \/ \E t \in TouchPairs : TouchMoveInit(t[1], t[2])
  \/ \E t \in TouchPairs : TouchMovePinch(t[1], t[2])
  \/ \E pos \in PointerPositions : TouchMoveSingle(pos)
  \/ TouchEndPinch
  \/ TouchEndSingle
  \/ HandleSetTimer
  \/ Tick

SpecPinch == InitPinch /\ [][NextPinch]_vars

(***************************************************************************)
(* The gesture specification: one touch gesture, begun by one finger       *)
(***************************************************************************)
NextGesture ==
  \/ \E pos \in PointerPositions : steps = 0 /\ TouchStartSingle(pos)
  \/ \E t \in TouchPairs : steps > 0 /\ TouchStartPinch(t[1], t[2])
  \/ \E t \in TouchPairs : steps > 0 /\ TouchMoveInit(t[1], t[2])
  \/ \E t \in TouchPairs : TouchMovePinch(t[1], t[2])
  \/ \E pos \in PointerPositions : steps > 0 /\ TouchMoveSingle(pos)
  \/ TouchEndPinch
  \/ steps > 0 /\ TouchEndSingle
  \/ HandleSetTimer
  \/ Tick

SpecGesture == InitPinch /\ [][NextGesture]_vars

(***************************************************************************)
(* The factory specification: one call of createElement on a project whose *)
(* elements have any different serialNumbers, in any order                 *)
(***************************************************************************)
SerialLists ==
  {serials \in UNION {[1..n -> 1..MaxSerial] : n \in 0..MaxExisting} :
     \A i, j \in DOMAIN serials : i # j => serials[i] # serials[j]}

\* a project file of ProjectB's image with one annotation per serialNumber
FactoryProject(serials) ==
  [ProjectB EXCEPT !.elements =
     [i \in DOMAIN serials |->
        FileElement(300 + i, serials[i], i - 1, [x |-> 2 * i, y |-> 2 * i, w |-> 10, h |-> 12],
                    [w |-> ProjectB.imageWidth, h |-> ProjectB.imageHeight])]]

factoryCtx(serials) ==
  set(initialCtx, loadProject(initialState, FactoryProject(serials), Some(ProjectB.imageUrl)),
      StartTime)

FactoryBoxes ==
  {[x |-> 0, y |-> 0, w |-> 10, h |-> 10], [x |-> 4, y |-> 8, w |-> 12, h |-> 20],
   [x |-> 2, y |-> 2, w |-> 10, h |-> 12]}

\* createElement({bbox, existingElements: state.elements})
CreateElement(pixel) ==
  LET imageSize == Val(getImageSize(state.project))
      bbox == createBBox(pixel, [w |-> imageSize.width, h |-> imageSize.height])
  IN /\ steps = 0
     /\ steps' = 1
     /\ uuid' = uuid + 1
     /\ lastOp' = [op |-> "createElement", dropped |-> 0, noop |-> FALSE,
                   args |-> state.elements,
                   result |-> createElement(bbox, state.elements, "", uuid + 1, now)]
     /\ UNCHANGED <<storeVars, throttleVars, healVars, touchVars, uiVars, now, loads,
                    issued, calls, fnLog>>

InitFactory ==
  /\ InitUi
  /\ \E serials \in SerialLists :
       InitCtx(factoryCtx(serials)) /\ issued = {serials[i] : i \in DOMAIN serials}
  /\ loads = 1

NextFactory == \E pixel \in FactoryBoxes : CreateElement(pixel)

SpecFactory == InitFactory /\ [][NextFactory]_vars

(***************************************************************************)
(* The size specification: drawing, dragging, the arrow keys, the resize   *)
(* commit, copy and paste, undo and redo on a project file that has an     *)
(* annotation narrower than minAnnotationSize (pixelCoordSchema asks for   *)
(* w > 0 and h > 0, and the file is loaded as it is)                       *)
(***************************************************************************)
ProjectD ==
  [id |-> "D", imageUrl |-> "d.png", imageWidth |-> 40, imageHeight |-> 24,
   elements |-> <<FileElement(401, 1, 0, [x |-> 6, y |-> 6, w |-> 4, h |-> 12],
                              [w |-> 40, h |-> 24]),
                  FileElement(402, 2, 1, [x |-> 24, y |-> 12, w |-> 12, h |-> 12],
                              [w |-> 40, h |-> 24])>>,
   updatedAt |-> 0]

\* ProjectD loaded
narrowCtx == set(initialCtx, loadProject(initialState, ProjectD, Some(ProjectD.imageUrl)),
                 StartTime)

\* ProjectD loaded and its narrow annotation selected
narrowSelectedCtx == set(narrowCtx, selectElement(narrowCtx.state, 401, FALSE), StartTime)

InitSize ==
  /\ InitUi
  /\ InitCtx(narrowCtx) \/ InitCtx(narrowSelectedCtx)
  /\ loads = 1
  /\ issued = Serials(ProjectD.elements)

NextSize ==
  \/ \E pos \in PointerPositions, alt \in BOOLEAN : HandleMouseDown(Some(pos), alt, FALSE)
  \/ \E pos \in PointerPositions : HandleMouseMove(Some(pos))
  \/ HandleMouseUp
  \/ \E a \in ArrowInputs : ArrowKey(a[1], a[2])
  \/ \E id \in Ids(state.elements), live \in LiveBoxes : TransformEnd(id, live)
  \/ KeyCopy
  \/ KeyPaste
  \/ UndoAnnotation
  \/ RedoAnnotation
  \/ HandleSetTimer
  \/ Tick

SpecSize == InitSize /\ [][NextSize]_vars

(***************************************************************************)
(* The copy specification: copySelectedElements called directly, paste,    *)
(* and between them the arrow keys, updateElement, the deletes, undo and   *)
(* redo on a project whose first annotation has a label, a component,      *)
(* notes and a color                                                       *)
(***************************************************************************)
ProjectE ==
  [id |-> "E", imageUrl |-> "e.png", imageWidth |-> 40, imageHeight |-> 24,
   elements |-> <<[id |-> 501, label |-> "Save",
                   bbox |-> createBBox([x |-> 2, y |-> 2, w |-> 12, h |-> 10],
                                       [w |-> 40, h |-> 24]),
                   serialNumber |-> 1, displayOrder |-> 0, createdAt |-> 0,
                   updatedAt |-> 0, component |-> [name |-> "Button"],
                   notes |-> "primary", color |-> "red"],
                  FileElement(502, 2, 1, [x |-> 6, y |-> 6, w |-> 12, h |-> 12],
                              [w |-> 40, h |-> 24])>>,
   updatedAt |-> 0]

\* ProjectE loaded
labelledCtx == set(initialCtx, loadProject(initialState, ProjectE, Some(ProjectE.imageUrl)),
                   StartTime)

\* ProjectE loaded and its first annotation selected
labelledSelectedCtx ==
  set(labelledCtx, selectElement(labelledCtx.state, 501, FALSE), StartTime)

\* copySelectedElements, whatever the selection is
CopySelectedElements ==
  /\ EditAs(set(Ctx, copySelectedElements(state), now),
            [op |-> "copySelectedElements", dropped |-> 0, noop |-> FALSE])
  /\ UNCHANGED <<uiVars, uuid>>

\* updateElement(id, {label})
UpdateLabel(id, label) ==
  /\ EditAs(set(Ctx, updateElement(state, id, [label |-> label], now), now),
            [op |-> "updateElement", dropped |-> 0, noop |-> FALSE])
  /\ UNCHANGED <<uiVars, uuid>>

InitCopy ==
  /\ InitUi
  /\ InitCtx(labelledCtx) \/ InitCtx(labelledSelectedCtx)
  /\ loads = 1
  /\ issued = Serials(ProjectE.elements)

NextCopy ==
  \/ CopySelectedElements
  \/ KeyPaste
  \/ \E a \in ArrowInputs : ArrowKey(a[1], a[2])
  \/ \E id \in Ids(state.elements) : UpdateLabel(id, "Cancel")
  \/ \E id \in Ids(state.elements) : DeleteElement(id)
  \/ KeyDelete
  \/ \E id \in Ids(state.elements), add \in BOOLEAN : LayerSelect(id, add)
  \/ UndoAnnotation
  \/ RedoAnnotation
  \/ HandleSetTimer
  \/ Tick

SpecCopy == InitCopy /\ [][NextCopy]_vars

(***************************************************************************)
(* The quiet specification: the store actions that leave the elements as   *)
(* they are, between arrow-key moves, undos and redos                      *)
(***************************************************************************)
DeselectAll == StoreCall(deselectAll(state), "deselectAll")

SetOffset(x, y) == StoreCall(setOffset(state, x, y), "setOffset")

InitQuiet ==
  /\ InitUi
  /\ InitCtx(frameCtx)
  /\ loads = 1
  /\ issued = Serials(ProjectA.elements)

NextQuiet ==
  \/ \E id \in Ids(state.elements), add \in BOOLEAN : LayerSelect(id, add)
  \/ DeselectAll
  \/ SetScale(Num(2))
  \/ SetOffset(Num(4), Num(-6))
  \/ SetViewport(Num(3), Num(4), Num(-6))
  \/ ZoomIn
  \/ ZoomOut
  \/ ZoomToFit
  \/ SetContainerSize(64, 32)
  \/ \E tool \in ToolModes : SetActiveTool(tool)
  \/ CopySelectedElements
  \/ StartDrawing([x |-> 30, y |-> 22])
  \/ UpdateDrawing([x |-> 8, y |-> 10])
  \/ CancelDrawing
  \/ ArrowKey("ArrowRight", FALSE)
  \/ UndoAnnotation
  \/ RedoAnnotation
  \/ HandleSetTimer
  \/ Tick

SpecQuiet == InitQuiet /\ [][NextQuiet]_vars

(***************************************************************************)
(* The round-trip specification: undo, the throttle's trailing timer and   *)
(* redo.  lastOp remembers the elements before the last undo until an      *)
(* action other than the timer and the clock follows                       *)
(***************************************************************************)
\* undoAnnotation(); before holds the elements the undo started from
UndoFrom ==
  LET c == undoAnnotation(Ctx, now)
  IN /\ Step
     /\ Commit(c)
     /\ lastOp' = [op |-> "undoAnnotation", dropped |-> 0, noop |-> Len(pastStates) = 0,
                   before |-> state.elements, timer |-> FALSE]
     /\ issued' = Serials(c.state.elements)
     /\ UNCHANGED <<uiVars, now, uuid, loads, calls, fnLog>>

\* the trailing timer of the throttled _handleSet fires
TimerSince ==
  /\ timeoutId # NULL
  /\ now >= Val(timeoutId)
  /\ Commit(handleSetTimer(Ctx, now))
  /\ lastOp' = IF lastOp.op = "undoAnnotation" THEN [lastOp EXCEPT !.timer = TRUE]
               ELSE lastOp
  /\ UNCHANGED <<uiVars, now, uuid, steps, loads, issued, calls, fnLog>>

\* redoAnnotation(); before is set when the call follows an undo that
\* travelled, with nothing but the timer and the clock in between
RedoSince ==
  LET c == redoAnnotation(Ctx, now)
      follows == lastOp.op = "undoAnnotation" /\ ~lastOp.noop
  IN /\ Step
     /\ Commit(c)
     /\ lastOp' = [op |-> "redoAnnotation", dropped |-> 0, noop |-> Len(futureStates) = 0,
                   before |-> IF follows THEN Some(lastOp.before) ELSE NULL,
                   timer |-> follows /\ lastOp.timer]
     /\ issued' = Serials(c.state.elements)
     /\ UNCHANGED <<uiVars, now, uuid, loads, calls, fnLog>>

InitRoundTrip ==
  /\ InitUi
  /\ InitCtx(frameCtx)
  /\ loads = 1
  /\ issued = Serials(ProjectA.elements)

NextRoundTrip ==
  \/ \E a \in ArrowInputs : ArrowKey(a[1], a[2])
  \/ \E id \in Ids(state.elements) : DeleteElement(id)
  \/ UndoFrom
  \/ RedoSince
  \/ TimerSince
  \/ Tick

SpecRoundTrip == InitRoundTrip /\ [][NextRoundTrip]_vars

(***************************************************************************)
(* The precondition specification: store actions called where their        *)
(* precondition fails (no such element, no project, empty clipboard, a     *)
(* container without width or height)                                      *)
(***************************************************************************)
\* pasteElements, whatever the clipboard and the project are
PasteElements ==
  LET n == Len(state.clipboard.elements)
      ids == [i \in 1..n |-> uuid + i]
      pastes == n > 0 /\ getImageSize(state.project) # NULL
  IN /\ pastes => uuid + n <= MaxIds
     /\ uuid' = IF pastes THEN uuid + n ELSE uuid
     /\ EditAs(set(Ctx, pasteElements(state, ids, now), now),
               [op |-> "pasteElements", dropped |-> 0, noop |-> FALSE])
     /\ UNCHANGED uiVars

ContainerSizes == {<<64, 0>>, <<0, 32>>, <<64, 32>>}

InitGuard ==
  /\ InitUi
  /\ InitCtx(loadedCtx) \/ InitCtx(frameCtx)
  /\ loads = 1
  /\ issued = Serials(ProjectA.elements)

NextGuard ==
  \/ \E id \in Ids(state.elements) \cup {MissingId} : UpdateLabel(id, "Cancel")
  \/ \E id \in Ids(state.elements) \cup {MissingId} : MoveElement(id, 2, -4)
  \/ PasteElements
  \/ ZoomIn
  \/ ZoomOut
  \/ ZoomToFit
  \/ CenterAt100
  \/ \E size \in ContainerSizes : SetContainerSize(size[1], size[2])
  \/ ClearProject
  \/ UndoAnnotation
  \/ RedoAnnotation
  \/ HandleSetTimer
  \/ Tick

SpecGuard == InitGuard /\ [][NextGuard]_vars

(***************************************************************************)
(* The pointer specification: pointer down, move, up, double click and     *)
(* clearMode over three stacked annotations                                *)
(***************************************************************************)
\* a project file with three nested annotations whose displayOrder is not
\* their order in the array: 202 is on top, then 203, then 201
ProjectC ==
  [id |-> "C", imageUrl |-> "c.png", imageWidth |-> 40, imageHeight |-> 24,
   elements |-> <<FileElement(201, 1, 0, [x |-> 0, y |-> 0, w |-> 20, h |-> 20],
                              [w |-> 40, h |-> 24]),
                  FileElement(202, 2, 2, [x |-> 4, y |-> 4, w |-> 12, h |-> 12],
                              [w |-> 40, h |-> 24]),
                  FileElement(203, 3, 1, [x |-> 8, y |-> 8, w |-> 12, h |-> 12],
                              [w |-> 40, h |-> 24])>>,
   updatedAt |-> 0]

\* over 201 alone, over all three, and over no annotation
StackPositions == {[x |-> 2, y |-> 2], [x |-> 10, y |-> 10], [x |-> 34, y |-> 22]}

stackCtx == set(initialCtx, loadProject(initialState, ProjectC, Some(ProjectC.imageUrl)),
                StartTime)

InitPointer ==
  /\ InitUi
  /\ \/ InitCtx(initialCtx) /\ loads = 0 /\ issued = {}
     \/ InitCtx(stackCtx) /\ loads = 1 /\ issued = Serials(ProjectC.elements)

NextPointer ==
  \/ \E pos \in StackPositions, alt \in BOOLEAN, tr \in BOOLEAN :
       HandleMouseDown(Some(pos), alt, tr)
  \/ \E pos \in StackPositions : HandleMouseMove(Some(pos))
  \/ HandleMouseUp
  \/ \E pos \in StackPositions, tr \in BOOLEAN : HandleDblClick(Some(pos), tr)
  \/ ClearMode
  \/ \E tool \in ToolModes : SetActiveTool(tool)
  \/ \E id \in Ids(state.elements), add \in BOOLEAN : LayerSelect(id, add)
  \/ ClearProject
  \/ HandleSetTimer

SpecPointer == InitPointer /\ [][NextPointer]_vars

(***************************************************************************)
(* The selection specification: every operation that writes the selection  *)
(* or removes elements, over three stacked annotations                     *)
(***************************************************************************)
\* ProjectC loaded and its annotation 201 selected
stackSelectedCtx == set(stackCtx, selectElement(stackCtx.state, 201, FALSE), StartTime)

InitSelection ==
  /\ InitUi
  /\ InitCtx(stackCtx) \/ InitCtx(stackSelectedCtx)
  /\ loads = 1
  /\ issued = Serials(ProjectC.elements)

NextSelection ==
  \/ \E pos \in StackPositions, alt \in BOOLEAN : HandleMouseDown(Some(pos), alt, FALSE)
  \/ \E pos \in StackPositions : HandleMouseMove(Some(pos))
  \/ HandleMouseUp
  \/ \E pos \in StackPositions : HandleDblClick(Some(pos), FALSE)
  \/ \E id \in Ids(state.elements), add \in BOOLEAN : LayerSelect(id, add)
  \/ \E id \in Ids(state.elements) : DeleteElement(id)
  \/ KeyDelete
  \/ KeyCopy
  \/ KeyPaste
  \/ UndoAnnotation
  \/ RedoAnnotation
  \/ LoadProject(ProjectA)
  \/ ClearProject
  \/ HandleSetTimer
  \/ Tick

SpecSelection == InitSelection /\ [][NextSelection]_vars

(***************************************************************************)
(* The snap specification: one call of getSnapResult (a move) or of        *)
(* getResizeSnapResult (a resize) of useKonvaSnap, over the elements and   *)
(* the image of the loaded project                                         *)
(***************************************************************************)
emptyCtx == set(initialCtx, loadProject(initialState, ProjectB, Some(ProjectB.imageUrl)),
                StartTime)

\* the boxes moved (NULL: a bare point) and the sizes of the boxes resized
MovingBoxes == {NULL, Some([x |-> 0, y |-> 0, w |-> 12, h |-> 8]),
                Some([x |-> 0, y |-> 0, w |-> 4, h |-> 6])}
ResizeSizes == {[w |-> 6, h |-> 4], [w |-> 16, h |-> 8]}
SnapExcludes == {{}, {202}, {201, 203}}

\* getSnapResult(point, state.elements, excludeIds, imageWidth, imageHeight, movingBox)
GetSnapResult(point, excludeIds, movingBox) ==
  LET args == [point |-> point, elements |-> state.elements, excludeIds |-> excludeIds,
               imageWidth |-> Val(state.project).imageWidth,
               imageHeight |-> Val(state.project).imageHeight, movingBox |-> movingBox]
      r == getSnapResult(point, args.elements, excludeIds, args.imageWidth,
                         args.imageHeight, movingBox)
  IN /\ state.project # NULL
     /\ steps = 0
     /\ steps' = 1
     /\ activeGuidelines' = r.guidelines
     /\ lastOp' = [op |-> "getSnapResult", dropped |-> 0, noop |-> FALSE,
                   args |-> args, result |-> r.point]
     /\ UNCHANGED <<storeVars, throttleVars, healVars, touchVars, mode, drawCurrent, now, uuid, loads,
                    issued, calls, fnLog>>

\* getResizeSnapResult(edges, state.elements, excludeId, imageWidth, imageHeight)
GetResizeSnapResult(edges, excludeId) ==
  LET args == [edges |-> edges, elements |-> state.elements, excludeId |-> excludeId,
               imageWidth |-> Val(state.project).imageWidth,
               imageHeight |-> Val(state.project).imageHeight]
      r == getResizeSnapResult(edges, args.elements, excludeId, args.imageWidth,
                               args.imageHeight)
  IN /\ state.project # NULL
     /\ steps = 0
     /\ steps' = 1
     /\ activeGuidelines' = r.active
     /\ lastOp' = [op |-> "getResizeSnapResult", dropped |-> 0, noop |-> FALSE,
                   args |-> args,
                   result |-> [snapLeft |-> r.snapLeft, snapRight |-> r.snapRight,
                               snapTop |-> r.snapTop, snapBottom |-> r.snapBottom,
                               guidelines |-> r.guidelines]]
     /\ UNCHANGED <<storeVars, throttleVars, healVars, touchVars, mode, drawCurrent, now, uuid, loads,
                    issued, calls, fnLog>>

InitSnap ==
  /\ InitUi
  /\ \/ InitCtx(stackCtx) /\ loads = 1 /\ issued = Serials(ProjectC.elements)
     \/ InitCtx(emptyCtx) /\ loads = 1 /\ issued = {}

\* one call in a run
NextSnap ==
  \/ /\ steps = 0
     /\ \E x \in 0..Val(state.project).imageWidth,
           y \in 0..Val(state.project).imageHeight,
           excludeIds \in SnapExcludes, movingBox \in MovingBoxes :
          GetSnapResult([x |-> x, y |-> y], excludeIds, movingBox)
  \/ /\ steps = 0
     /\ \E left \in 0..Val(state.project).imageWidth,
           top \in 0..Val(state.project).imageHeight,
           size \in ResizeSizes, excludeId \in {201, 202, MissingId} :
          GetResizeSnapResult([left |-> left, right |-> left + size.w,
                               top |-> top, bottom |-> top + size.h], excludeId)

SpecSnap == InitSnap /\ [][NextSnap]_vars

(***************************************************************************)
(* components/canvas/annotations-layer.tsx handleElementTransform: one     *)
(* step of a resize gesture.  edges are the edges of the live rectangle    *)
(* (group position, rect size times rect scale) when the handler runs.     *)
(***************************************************************************)
\* the edges the handler leaves the live rectangle with
handleElementTransform(edges, snap) ==
  [left |-> IF snap.snapLeft # NULL THEN Val(snap.snapLeft) ELSE edges.left,
   right |-> IF snap.snapLeft # NULL THEN edges.right
             ELSE IF snap.snapRight # NULL THEN Val(snap.snapRight) ELSE edges.right,
   top |-> IF snap.snapTop # NULL THEN Val(snap.snapTop) ELSE edges.top,
   bottom |-> IF snap.snapTop # NULL THEN edges.bottom
              ELSE IF snap.snapBottom # NULL THEN Val(snap.snapBottom) ELSE edges.bottom]

HandleElementTransform(edges, id) ==
  LET imageSize == Val(getImageSize(state.project))
      snap == getResizeSnapResult(edges, state.elements, id, imageSize.width,
                                  imageSize.height)
  IN /\ steps = 0
     /\ steps' = 1
     /\ activeGuidelines' = snap.active
     /\ lastOp' = [op |-> "handleElementTransform", dropped |-> 0, noop |-> FALSE,
                   args |-> edges,
                   snap |-> [left |-> snap.snapLeft, right |-> snap.snapRight,
                             top |-> snap.snapTop, bottom |-> snap.snapBottom],
                   result |-> handleElementTransform(edges, snap)]
     /\ UNCHANGED <<storeVars, throttleVars, healVars, touchVars, mode, drawCurrent, now,
                    uuid, loads, issued, calls, fnLog>>

\* the sizes of the live rectangle
TransformSizes == {[w |-> 6, h |-> 4], [w |-> 16, h |-> 8], [w |-> 12, h |-> 12]}

InitTransform ==
  /\ InitUi
  /\ InitCtx(stackCtx)
  /\ loads = 1
  /\ issued = Serials(ProjectC.elements)

NextTransform ==
  /\ steps = 0
  /\ \E left \in 0..Val(state.project).imageWidth,
        top \in 0..Val(state.project).imageHeight,
        size \in TransformSizes, id \in {201, 202} :
       HandleElementTransform([left |-> left, right |-> left + size.w,
                               top |-> top, bottom |-> top + size.h], id)

SpecTransform == InitTransform /\ [][NextTransform]_vars

(***************************************************************************)
(* The clipboard specification: copies and pastes of one or two selected   *)
(* elements among the other edits of the selection and of the elements     *)
(***************************************************************************)
\* ProjectA loaded and both of its elements selected
pairCtx ==
  LET c1 == set(loadedCtx, selectElement(loadedCtx.state, 101, FALSE), StartTime)
  IN set(c1, selectElement(c1.state, 102, TRUE), StartTime)

InitClipboard ==
  /\ InitUi
  /\ InitCtx(frameCtx) \/ InitCtx(pairCtx)
  /\ loads = 1
  /\ issued = Serials(ProjectA.elements)

NextClipboard ==
  \/ KeyCopy
  \/ KeyPaste
  \/ KeyDelete
  \/ \E id \in Ids(state.elements), add \in BOOLEAN : LayerSelect(id, add)
  \/ \E a \in ArrowInputs : ArrowKey(a[1], a[2])
  \/ ClearProject
  \/ UndoAnnotation
  \/ RedoAnnotation
  \/ HandleSetTimer
  \/ Tick

SpecClipboard == InitClipboard /\ [][NextClipboard]_vars

(***************************************************************************)
(* The self-heal specification: the page reloaded, the project and its     *)
(* elements rehydrated from localStorage and the image missing; the loads  *)
(* the subscription starts settle between the edits.  The callbacks of a   *)
(* settled promise run as microtasks: no handler runs between the then or  *)
(* catch callback and the finally callback.                                *)
(***************************************************************************)
\* persist: the stored project and elements merged into the initial state,
\* then onRehydrateStorage
rehydrate(s, stored) ==
  LET merged == merge(s, stored)
  IN IF merged.project # NULL
     THEN [merged EXCEPT !.elements = Val(merged.project).elements]
     ELSE merged

rehydratedCtx ==
  [initialCtx EXCEPT !.state = rehydrate(initialState,
                                         [project |-> Some(ProjectA),
                                          elements |-> ProjectA.elements])]

\* a promise whose then or catch callback has run and whose finally callback
\* has not
MicrotaskPending ==
  \E i \in DOMAIN imageLoads : imageLoads[i].status # "pending" /\ ~imageLoads[i].finished

\* img.onload: the promise resolves and the then callback runs
\* useAnnotationStore.setState({ image: loadedImage })
ImageLoaded(i) ==
  LET c == set(Ctx, merge(state, [image |-> Some(imageLoads[i].url)]), now)
      h == notified(c.state)
  IN /\ imageLoads[i].status = "pending"
     /\ Step
     /\ CommitStore(c)
     /\ isLoadingImage' = h.isLoadingImage
     /\ imageLoads' = [h.imageLoads EXCEPT ![i].status = "fulfilled"]
     /\ occurrenceLoads' = occurrenceAfter(c.state, h)
     /\ lastOp' = Op("then")
     /\ UNCHANGED <<touchVars, uiVars, now, uuid, loads, issued, calls, fnLog>>

\* img.onerror: the promise rejects and the catch callback logs the error
ImageFailed(i) ==
  /\ imageLoads[i].status = "pending"
  /\ Step
  /\ imageLoads' = [imageLoads EXCEPT ![i].status = "rejected"]
  /\ lastOp' = Op("catch")
  /\ UNCHANGED <<storeVars, throttleVars, touchVars, isLoadingImage, occurrenceLoads,
                 uiVars, now, uuid, loads, issued, calls, fnLog>>

\* a variant of the finally callback that leaves the flag
finallyKeepsFlag(flag) == flag

\* the finally callback: isLoadingImage = false
finally(flag) == FALSE

ImageSettled(i) ==
  /\ imageLoads[i].status # "pending"
  /\ ~imageLoads[i].finished
  /\ isLoadingImage' = finally(isLoadingImage)
  /\ imageLoads' = [imageLoads EXCEPT ![i].finished = TRUE]
  /\ UNCHANGED <<storeVars, throttleVars, touchVars, occurrenceLoads, uiVars, now, uuid,
                 lastOp, steps, loads, issued, calls, fnLog>>

InitHeal ==
  /\ InitUi
  /\ InitCtx(rehydratedCtx)
  /\ loads = 0
  /\ issued = Serials(ProjectA.elements)

NextHeal ==
  \/ \E i \in DOMAIN imageLoads : ~MicrotaskPending /\ ImageLoaded(i)
  \/ \E i \in DOMAIN imageLoads : ~MicrotaskPending /\ ImageFailed(i)
  \/ \E i \in DOMAIN imageLoads : ImageSettled(i)
  \/ \E pos \in PointerPositions : ~MicrotaskPending /\ StartDrawing(pos)
  \/ \E pos \in PointerPositions : ~MicrotaskPending /\ UpdateDrawing(pos)
  \/ ~MicrotaskPending /\ FinishDrawing
  \/ \E a \in ArrowInputs : ~MicrotaskPending /\ ArrowKey(a[1], a[2])
  \/ \E id \in Ids(state.elements) : ~MicrotaskPending /\ DeleteElement(id)
  \/ \E id \in Ids(state.elements) : ~MicrotaskPending /\ LayerSelect(id, FALSE)
  \/ ~MicrotaskPending /\ UndoAnnotation
  \/ ~MicrotaskPending /\ RedoAnnotation
  \/ ~MicrotaskPending /\ ClearProject
  \/ \E p \in Projects : ~MicrotaskPending /\ LoadProject(p)
  \/ ~MicrotaskPending /\ HandleSetTimer
  \/ ~MicrotaskPending /\ Tick

SpecHeal == InitHeal /\ [][NextHeal]_vars

\* a microtask that is due runs
SpecHealFair == SpecHeal /\ WF_vars(\E i \in DOMAIN imageLoads : ImageSettled(i))

(***************************************************************************)
(* The throttle specification: lib/throttle.ts alone, with fn recording    *)
(* its invocations.  The n-th call of the throttled function passes n.     *)
(***************************************************************************)
Th == [timeoutId |-> timeoutId, lastCallTime |-> lastCallTime, lastArgs |-> lastArgs]

\* fn(...args), invoked at the time now from the given edge
fn(invoked, edge) ==
  IF invoked # NULL
  THEN fnLog' = Append(fnLog, [args |-> Val(invoked), at |-> now, edge |-> edge])
  ELSE fnLog' = fnLog

ThrottleCall ==
  LET r == throttled(Th, calls + 1, now)
  IN /\ calls < MaxCalls
     /\ calls' = calls + 1
     /\ timeoutId' = r.th.timeoutId
     /\ lastCallTime' = r.th.lastCallTime
     /\ lastArgs' = r.th.lastArgs
     /\ fn(r.invoked, "leading")
     /\ UNCHANGED <<storeVars, healVars, touchVars, uiVars, now, uuid, lastOp, steps,
                    loads, issued>>

\* the setTimeout callback runs once the timer is due
ThrottleTimer ==
  LET r == timerCallback(Th, now)
  IN /\ timeoutId # NULL
     /\ now >= Val(timeoutId)
     /\ timeoutId' = r.th.timeoutId
     /\ lastCallTime' = r.th.lastCallTime
     /\ lastArgs' = r.th.lastArgs
     /\ fn(r.invoked, "trailing")
     /\ UNCHANGED <<storeVars, healVars, touchVars, uiVars, now, uuid, lastOp, steps,
                    loads, issued, calls>>

\* time passes: always up to the time a pending timer is due at
ThrottleTick ==
  /\ \/ now < StartTime + MaxThrottleTicks * TickMs
     \/ timeoutId # NULL /\ now < Val(timeoutId)
  /\ now' = now + TickMs
  /\ UNCHANGED <<storeVars, throttleVars, healVars, touchVars, uiVars, uuid, lastOp, steps, loads,
                 issued, calls, fnLog>>

InitThrottle ==
  /\ InitUi
  /\ InitCtx(initialCtx)
  /\ loads = 0
  /\ issued = {}

NextThrottle ==
  \/ ThrottleCall
  \/ ThrottleTimer
  \/ ThrottleTick

SpecThrottle == InitThrottle /\ [][NextThrottle]_vars

\* timers eventually fire, and time passes
SpecThrottleFair ==
  SpecThrottle /\ WF_vars(ThrottleTimer) /\ WF_vars(ThrottleTick)

(***************************************************************************)
(* The near-cap specification: the history already holds NearCap           *)
(* snapshots, left there by loading ProjectA and moving element 101 with   *)
(* the arrow keys once every wait ms.                                      *)
(***************************************************************************)
\* the time of the j-th of the moves
moveTime(j) == StartTime + j * wait

\* the store state after the j-th move: ArrowRight and ArrowLeft in turn, so
\* that element 101 is one pixel to the right after an odd number of moves
movedState(j) ==
  LET s0 == selectElement(loadedCtx.state, ProjectA.elements[1].id, FALSE)
      p == ProjectA.elements[1].bbox.pixel
      bbox == createBBox([x |-> p.x + (j % 2), y |-> p.y, w |-> p.w, h |-> p.h],
                         [w |-> ProjectA.imageWidth, h |-> ProjectA.imageHeight])
  IN IF j = 0 THEN s0
     ELSE updateElement(s0, ProjectA.elements[1].id, [bbox |-> bbox], moveTime(j))

\* every move is a leading-edge capture of the state before it, and its
\* trailing timer has run: the history holds the state before the load, the
\* loaded state and the states after all the moves but the last
limitCtx ==
  [state |-> movedState(NearCap - 1),
   pastStates |-> [k \in 1..NearCap |->
                     IF k = 1 THEN partialize(initialState)
                     ELSE partialize(movedState(k - 2))],
   futureStates |-> <<>>,
   th |-> [timeoutId |-> NULL, lastCallTime |-> moveTime(NearCap - 1), lastArgs |-> NULL]]

\* the time of the last of the moves
LimitTime == moveTime(NearCap - 1)

InitLimit ==
  /\ InitCtx(limitCtx)
  /\ pinchRef = NULL
  /\ pinched = FALSE
  /\ konva = [scale |-> initialViewportState.scale, x |-> initialViewportState.offsetX,
              y |-> initialViewportState.offsetY]
  /\ isLoadingImage = FALSE
  /\ imageLoads = <<>>
  /\ occurrenceLoads = 0
  /\ mode = [type |-> "idle"]
  /\ drawCurrent = NULL
  /\ activeGuidelines = <<>>
  /\ now = LimitTime
  /\ uuid = 0
  /\ lastOp = Op("init")
  /\ steps = 0
  /\ loads = 1
  /\ issued = Serials(ProjectA.elements)
  /\ calls = 0
  /\ fnLog = <<>>

LimitTick ==
  /\ now < LimitTime + MaxLimitTicks * wait
  /\ now' = now + wait
  /\ UNCHANGED <<state, pastStates, futureStates, throttleVars, healVars, touchVars, uiVars,
                 uuid, lastOp, steps, loads, issued, calls, fnLog>>

NextLimit ==
  \/ \E a \in ArrowInputs : ArrowKey(a[1], a[2])
  \/ KeyDelete
  \/ UndoAnnotation
  \/ RedoAnnotation
  \/ HandleSetTimer
  \/ LimitTick

SpecLimit == InitLimit /\ [][NextLimit]_vars

(***************************************************************************)
(* Properties                                                              *)
(***************************************************************************)
\* the step is a run of undoAnnotation or of redoAnnotation
TemporalStep ==
  /\ steps' = steps + 1
  /\ lastOp'.op \in {"undoAnnotation", "redoAnnotation"}

\* the elements a step creates: those with a uuid drawn in the step
Created == SelectSeq(state'.elements, LAMBDA e : e.id \in (uuid + 1)..uuid')

\* C1: on one loaded project, every element's bbox.norm is its bbox.pixel
\* divided componentwise by the project's imageWidth / imageHeight, whatever
\* draws, drags, arrow-key moves, moveElement calls, resize commits, pastes,
\* undos and redos came before.
NormIsPixelOverImageSize ==
  (loads <= 1 /\ state.project # NULL) =>
    \A i \in DOMAIN state.elements :
      state.elements[i].bbox.norm =
        pixelToNorm(state.elements[i].bbox.pixel,
                    [w |-> Val(state.project).imageWidth,
                     h |-> Val(state.project).imageHeight])

\* C1 happens: a redo has brought back an element that was moved or created
NormAfterRedo ==
  /\ loads = 1
  /\ state.project # NULL
  /\ lastOp.op = "redoAnnotation" /\ ~lastOp.noop
  /\ \E i \in DOMAIN state.elements :
       \A j \in DOMAIN ProjectA.elements :
         state.elements[i].bbox.pixel # ProjectA.elements[j].bbox.pixel

\* C2: the displayOrder values of the n elements are pairwise distinct and
\* are exactly 0 .. n-1.
DisplayOrderDense ==
  LET n == Len(state.elements)
  IN /\ \A i \in 1..n : state.elements[i].displayOrder \in 0..(n - 1)
     /\ \A i, j \in 1..n :
          i # j => state.elements[i].displayOrder # state.elements[j].displayOrder

\* C3, as claimed: an element created never gets a serialNumber that an
\* element of the project had before, even one deleted since.
SerialNeverReissued ==
  [][\A k \in DOMAIN Created : Created[k].serialNumber \notin issued]_vars

\* C3, amended: an element created gets a serialNumber above that of every
\* element present when it is created, and the elements created in one step
\* get different ones.
SerialAbovePresent ==
  [][/\ \A k \in DOMAIN Created : \A i \in DOMAIN state.elements :
          Created[k].serialNumber > state.elements[i].serialNumber
     /\ \A k, l \in DOMAIN Created :
          k # l => Created[k].serialNumber # Created[l].serialNumber]_vars

\* C3 happens: the second element of ProjectA was deleted and an element
\* created after that has its serialNumber
SerialReissued ==
  /\ loads = 1
  /\ state.project # NULL /\ Val(state.project).id = ProjectA.id
  /\ \E i \in DOMAIN state.elements : state.elements[i].id = ProjectA.elements[1].id
  /\ \E i \in DOMAIN state.elements :
       /\ state.elements[i].id \in 1..uuid
       /\ state.elements[i].serialNumber = ProjectA.elements[2].serialNumber

\* C4: whenever project is non-null, project.elements equals the store's
\* elements array, after every store action and every undo and redo.
ProjectElementsInSync ==
  state.project # NULL => Val(state.project).elements = state.elements

\* C4 happens: an undo has restored an elements array other than the file's
SyncAfterUndo ==
  /\ state.project # NULL
  /\ lastOp.op = "undoAnnotation" /\ ~lastOp.noop
  /\ state.elements # <<>>
  /\ state.elements # ProjectA.elements

\* C5: an undo or redo that travels leaves in selectedIds the ids it held
\* before that are ids of restored elements, in their order, and no other.
SelectionRepaired ==
  [][(TemporalStep /\ ~lastOp'.noop) =>
       state'.selection.selectedIds =
         SelectSeq(state.selection.selectedIds,
                   LAMBDA id : \E i \in DOMAIN state'.elements : state'.elements[i].id = id)]_vars

\* C5 happens: an undo or redo has dropped a selected id
SelectionDropped ==
  /\ lastOp.op \in {"undoAnnotation", "redoAnnotation"}
  /\ ~lastOp.noop
  /\ lastOp.dropped > 0

\* C10: undoAnnotation with no past snapshot and redoAnnotation with no
\* future snapshot change nothing: not the store state (project.updatedAt
\* included), not the history.
EmptyHistoryNoOp ==
  [][/\ (TemporalStep /\ lastOp'.op = "undoAnnotation" /\ Len(pastStates) = 0)
          => UNCHANGED <<state, pastStates, futureStates, throttleVars>>
     /\ (TemporalStep /\ lastOp'.op = "redoAnnotation" /\ Len(futureStates) = 0)
          => UNCHANGED <<state, pastStates, futureStates, throttleVars>>]_vars

\* C10 happens: undoAnnotation found no past snapshot on a loaded project
\* stamped earlier
UndoOnEmptyPast ==
  /\ lastOp.op = "undoAnnotation" /\ lastOp.noop
  /\ state.project # NULL
  /\ Val(state.project).updatedAt < now

\* the step is a capture: _handleSet has pushed a snapshot on pastStates
CaptureStep == pastStates' # pastStates /\ lastOp'.op = "other"

\* C6: the history never holds more than 50 past snapshots, and a capture
\* made when it holds 50 discards the oldest one.
HistoryCapped ==
  /\ Len(pastStates) <= 50
  /\ [][/\ Len(pastStates') <= 50
        /\ (CaptureStep /\ Len(pastStates) = 50) =>
             /\ Len(pastStates') = 50
             /\ SubSeq(pastStates', 1, 49) = Tail(pastStates)]_vars

\* C6 happens: the history holds 50 snapshots and the oldest one of the
\* initial history is gone
OldestDiscarded ==
  /\ Len(pastStates) = 50
  /\ pastStates[1] # limitCtx.pastStates[1]

\* C7: any two invocations of fn are at least wait apart.
InvocationsWaitApart ==
  \A i, j \in DOMAIN fnLog : i < j => fnLog[j].at - fnLog[i].at >= wait

\* the arguments of the n-th call have been delivered to fn
Delivered(n) == \E i \in DOMAIN fnLog : fnLog[i].args = n

\* C8: with timers that eventually fire, the arguments of a call that no
\* other call follows are eventually delivered to fn, on the leading edge
\* or by the trailing timer, and pending arguments always have a timer.
TrailingDelivered ==
  /\ [](lastArgs # NULL => timeoutId # NULL)
  /\ \A n \in 1..MaxCalls : (calls = n) ~> (calls > n \/ Delivered(n))

\* C8 happens: the trailing timer has delivered the arguments of the last
\* call, which the leading edge did not take
DeliveredByTimer ==
  /\ calls > 1
  /\ fnLog # <<>>
  /\ fnLog[Len(fnLog)].args = calls
  /\ fnLog[Len(fnLog)].edge = "trailing"

\* the scale is a number between minScale and maxScale
ScaleInRangeOf(viewport) ==
  numLe(viewport.minScale, viewport.scale) /\ numLe(viewport.scale, viewport.maxScale)

\* C11: in every reachable state minScale <= viewport.scale <= maxScale, after
\* any sequence of setScale, setViewport, zoomIn, zoomOut, zoomToFit,
\* centerAt100, resetViewport, Ctrl/Cmd + wheel zooms and pinch commits with
\* arbitrary arguments
ScaleInRange == ScaleInRangeOf(state.viewport)

\* the scale leaves the range only by becoming NaN
ScaleInRangeOrNaN == isNaN(state.viewport.scale) \/ ScaleInRange

\* C9: undoAnnotation and redoAnnotation leave viewport, activeTool,
\* clipboard, drawing, containerSize and image unchanged.
TemporalFrame ==
  [][TemporalStep =>
       /\ state'.viewport = state.viewport
       /\ state'.activeTool = state.activeTool
       /\ state'.clipboard = state.clipboard
       /\ state'.drawing = state.drawing
       /\ state'.containerSize = state.containerSize
       /\ state'.image = state.image]_vars

\* C9 happens: an undo has travelled with none of the six at its initial value
UndoWithFrameSet ==
  /\ lastOp.op = "undoAnnotation" /\ ~lastOp.noop
  /\ state.viewport # initialViewportState
  /\ state.activeTool # initialState.activeTool
  /\ state.clipboard # initialClipboardState
  /\ state.drawing # initialDrawingState
  /\ state.containerSize # initialContainerSize
  /\ state.image # NULL

(***************************************************************************)
(* Pointer gestures                                                        *)
(***************************************************************************)
\* the positions in elements of the annotations whose box contains pos
HitAt(pos, elements) ==
  {i \in DOMAIN elements :
     /\ pos.x \in elements[i].bbox.pixel.x..(elements[i].bbox.pixel.x + elements[i].bbox.pixel.w)
     /\ pos.y \in elements[i].bbox.pixel.y..(elements[i].bbox.pixel.y + elements[i].bbox.pixel.h)}

\* a is Dragging of the element el grabbed at pos
DraggingOf(a, el, pos) ==
  a = [type |-> "dragging", elementId |-> el.id,
       offset |-> [x |-> pos.x - el.bbox.pixel.x, y |-> pos.y - el.bbox.pixel.y]]

\* what the five rules of pointer-down ask of a step, for a pointer at pos
PointerDownRule(pos, alt, tr) ==
  LET els == state.elements
      sel == Range(state.selection.selectedIds)
      hits == HitAt(pos, els)
      selHits == {i \in hits : els[i].id \in sel}
  IN IF state.activeTool # "edit" \/ state.project = NULL \/ tr
     THEN state' = state /\ mode' = mode /\ drawCurrent' = drawCurrent
     ELSE IF alt
     THEN mode' = [type |-> "drawing", start |-> pos] /\ state' = state
     ELSE IF selHits # {}
     THEN /\ \E i \in selHits : DraggingOf(mode', els[i], pos)
          /\ state'.selection = state.selection
     ELSE IF hits # {}
     THEN \E i \in hits :
            /\ \A j \in hits : els[j].displayOrder <= els[i].displayOrder
            /\ state'.selection.selectedIds = <<els[i].id>>
            /\ DraggingOf(mode', els[i], pos)
     ELSE /\ state'.selection.selectedIds = <<>>
          /\ mode' = [type |-> "drawing", start |-> pos]

\* C12: pointer-down applies the first matching rule of: (1) tool not edit, no
\* image size or a transform-handle target: no state change; (2) Alt held:
\* Drawing from the pointer; (3) pointer in a selected element: Dragging of it,
\* selection unchanged; (4) pointer in any element: the hit element with the
\* greatest displayOrder becomes the selection and is dragged; (5) otherwise
\* the selection is emptied and the mode is Drawing from the pointer.
PointerDownRules ==
  [][\A pos \in StackPositions, alt \in BOOLEAN, tr \in BOOLEAN :
       HandleMouseDown(Some(pos), alt, tr) => PointerDownRule(pos, alt, tr)]_vars

\* C12 happens: a pointer-down over the three stacked annotations, none of
\* them selected, picked 202, the one on top, and drags it
TopmostPicked ==
  /\ state.selection.selectedIds = <<202>>
  /\ DraggingOf(mode, state.elements[2], [x |-> 10, y |-> 10])
  /\ state.elements = ProjectC.elements
  /\ steps = 1

\* a step of handleMouseUp
PointerUpStep == lastOp'.op = "handleMouseUp" /\ steps' = steps + 1

\* a step of clearMode
ClearModeStep == lastOp'.op = "clearMode" /\ steps' = steps + 1

\* C13: after every pointer-up, from any mode and with or without a loaded
\* project, the mode is Idle, the draw-preview point is null and the list of
\* active snap guidelines is empty.
PointerUpResets ==
  [][PointerUpStep =>
       /\ mode' = [type |-> "idle"]
       /\ drawCurrent' = NULL
       /\ activeGuidelines' = <<>>]_vars

\* C13 happens: the project was cleared during a draw, and the pointer-up
\* that followed left Idle, no preview point and no guidelines
PointerUpWithoutProject ==
  /\ lastOp.op = "handleMouseUp"
  /\ lastOp.mode.type = "drawing"
  /\ state.project = NULL
  /\ mode = [type |-> "idle"]
  /\ drawCurrent = NULL
  /\ activeGuidelines = <<>>

\* C14: on pointer-up in Drawing with start point s and preview point c, with
\* the image still loaded: if |c.x - s.x| >= 10 and |c.y - s.y| >= 10, exactly
\* one element is appended, with pixel box {min(s.x, c.x), min(s.y, c.y),
\* |c.x - s.x|, |c.y - s.y|}, and the selection becomes exactly its id;
\* otherwise the elements and the selection are unchanged.
PointerUpDraws ==
  [][PointerUpStep /\ mode.type = "drawing" /\ state.project # NULL =>
       LET s == mode.start
           c == Val(drawCurrent)
           els == state.elements
           n == Len(els)
       IN IF Abs(c.x - s.x) >= minAnnotationSize /\ Abs(c.y - s.y) >= minAnnotationSize
          THEN /\ Len(state'.elements) = n + 1
               /\ SubSeq(state'.elements, 1, n) = els
               /\ state'.elements[n + 1].bbox.pixel =
                    [x |-> Min(s.x, c.x), y |-> Min(s.y, c.y),
                     w |-> Abs(c.x - s.x), h |-> Abs(c.y - s.y)]
               /\ state'.selection.selectedIds = <<state'.elements[n + 1].id>>
          ELSE /\ state'.elements = els
               /\ state'.selection = state.selection]_vars

\* C14 happens: a draw over the three annotations of ProjectC, large enough,
\* ended with a fourth element, selected
DrawnElementSelected ==
  /\ lastOp.op = "handleMouseUp"
  /\ lastOp.mode.type = "drawing"
  /\ Len(state.elements) = Len(ProjectC.elements) + 1
  /\ SubSeq(state.elements, 1, Len(ProjectC.elements)) = ProjectC.elements
  /\ state.selection.selectedIds = <<state.elements[Len(state.elements)].id>>

\* C15: clearMode in Drawing never creates an element: after clearMode the
\* mode is Idle, the preview point is null, the guidelines are empty and the
\* elements are what they were when the draw started (the moves of the draw do
\* not touch them either), for every drawn size.
CancelCreatesNothing ==
  [][/\ ClearModeStep =>
          /\ mode' = [type |-> "idle"]
          /\ drawCurrent' = NULL
          /\ activeGuidelines' = <<>>
          /\ state'.elements = state.elements
     /\ mode.type = "drawing" /\ (\E pos \in StackPositions : HandleMouseMove(Some(pos))) =>
          state'.elements = state.elements]_vars

\* C15 happens: a draw large enough to make an element was cancelled, and the
\* elements are still those of the file
LargeDrawCancelled ==
  /\ lastOp.op = "clearMode"
  /\ lastOp.mode.type = "drawing"
  /\ Abs(Val(lastOp.drawCurrent).x - lastOp.mode.start.x) >= minAnnotationSize
  /\ Abs(Val(lastOp.drawCurrent).y - lastOp.mode.start.y) >= minAnnotationSize
  /\ state.elements = ProjectC.elements
  /\ mode = [type |-> "idle"]

\* the 0-based position, in the hit list, of the hit element at position i of
\* elements: the number of hit elements above it (a greater displayOrder, or
\* the same one and earlier in the array)
HitRank(i, hits, elements) ==
  Cardinality({j \in hits :
                 \/ elements[j].displayOrder > elements[i].displayOrder
                 \/ elements[j].displayOrder = elements[i].displayOrder /\ j < i})

\* what the double-click cycle asks of a step, for a double click at pos
DblClickRule(pos) ==
  LET els == state.elements
      sel == state.selection.selectedIds
      hits == HitAt(pos, els)
      k == Cardinality(hits)
      cur == IF sel = <<>> THEN {} ELSE {i \in hits : els[i].id = sel[1]}
      target == IF cur = {} THEN 0
                ELSE (HitRank(CHOOSE i \in cur : TRUE, hits, els) + 1) % k
  IN IF k <= 1 THEN state'.selection = state.selection
     ELSE \E i \in hits :
            /\ HitRank(i, hits, els) = target
            /\ state'.selection.selectedIds = <<els[i].id>>

\* C16 as claimed: a double click at a point covered by k elements leaves the
\* selection when k <= 1 and, when k >= 2, makes it exactly [hit[(i + 1) mod
\* k]] for the first selected id at position i of the hit list (descending
\* displayOrder), [hit[0]] when no selected element is hit.
DblClickCycles ==
  [][\A pos \in StackPositions : HandleDblClick(Some(pos), FALSE) => DblClickRule(pos)]_vars

\* C16: with the edit tool active and the target not part of the
\* transform-handle overlay, a double click at a point covered by k elements
\* leaves the selection when k <= 1 and makes it exactly [hit[(i + 1) mod k]]
\* when k >= 2 ([hit[0]] when no selected element is hit); with another tool
\* or on the overlay it changes nothing.
DblClickCyclesInEdit ==
  [][\A pos \in StackPositions, tr \in BOOLEAN :
       HandleDblClick(Some(pos), tr) =>
         IF state.activeTool = "edit" /\ ~tr THEN DblClickRule(pos)
         ELSE state' = state]_vars

\* C16 happens: with 201, the last of the three hit elements, selected, a
\* double click wrapped around to 202, the first
DblClickWrapped ==
  /\ lastOp.op = "handleDblClick"
  /\ lastOp.selectedIds = <<201>>
  /\ state.selection.selectedIds = <<202>>
  /\ state.activeTool = "edit"

(***************************************************************************)
(* Snapping                                                                *)
(***************************************************************************)
\* the arguments of a getSnapResult call seen along one axis
MoveAxisX(a) ==
  [p |-> a.point.x, hasBox |-> a.movingBox # NULL,
   size |-> IF a.movingBox # NULL THEN Val(a.movingBox).w ELSE 0,
   targets |-> elementTargetsX(a.elements, a.excludeIds)
                 \o <<0, Half(a.imageWidth), a.imageWidth>>]
MoveAxisY(a) ==
  [p |-> a.point.y, hasBox |-> a.movingBox # NULL,
   size |-> IF a.movingBox # NULL THEN Val(a.movingBox).h ELSE 0,
   targets |-> elementTargetsY(a.elements, a.excludeIds)
                 \o <<0, Half(a.imageHeight), a.imageHeight>>]

\* leading edge, trailing edge, center; or the single point
RefCheckPoints(ax) ==
  IF ax.hasBox THEN <<ax.p, ax.p + ax.size, ax.p + Half(ax.size)>> ELSE <<ax.p>>
RefDistance(ax, pr) == Abs(RefCheckPoints(ax)[pr[1]] - ax.targets[pr[2]])
AllPairs(ax) == (DOMAIN RefCheckPoints(ax)) \X (DOMAIN ax.targets)
RefPairs(ax) == {pr \in AllPairs(ax) : RefDistance(ax, pr) < threshold}
\* the distance of the nearest (check point, target) pair
Nearest(ax) ==
  CHOOSE d \in {RefDistance(ax, pr) : pr \in AllPairs(ax)} :
    \A pr \in AllPairs(ax) : d <= RefDistance(ax, pr)
\* the qualifying pair of smallest distance, the first in loop order on ties
RefBest(ax) ==
  CHOOSE pr \in RefPairs(ax) :
    \A q \in RefPairs(ax) :
      \/ RefDistance(ax, pr) < RefDistance(ax, q)
      \/ /\ RefDistance(ax, pr) = RefDistance(ax, q)
         /\ (pr[1] < q[1] \/ (pr[1] = q[1] /\ pr[2] <= q[2]))
RefOffset(ax, i) == <<0, -ax.size, -Half(ax.size)>>[i]
RefSnap(ax) ==
  IF RefPairs(ax) = {} THEN ax.p
  ELSE ax.targets[RefBest(ax)[2]] + RefOffset(ax, RefBest(ax)[1])

\* the targets of a getResizeSnapResult call along one axis, in scan order
Kept(a) == SelectSeq(a.elements, LAMBDA e : e.id # a.excludeId)
RefResizeTargetsX(a) ==
  [k \in 1..(3 + 3 * Len(Kept(a))) |->
     IF k = 1 THEN 0 ELSE IF k = 2 THEN Half(a.imageWidth) ELSE IF k = 3 THEN a.imageWidth
     ELSE LET b == Kept(a)[((k - 4) \div 3) + 1].bbox.pixel
          IN <<b.x, b.x + b.w, b.x + Half(b.w)>>[((k - 4) % 3) + 1]]
RefResizeTargetsY(a) ==
  [k \in 1..(3 + 3 * Len(Kept(a))) |->
     IF k = 1 THEN 0 ELSE IF k = 2 THEN Half(a.imageHeight) ELSE IF k = 3 THEN a.imageHeight
     ELSE LET b == Kept(a)[((k - 4) \div 3) + 1].bbox.pixel
          IN <<b.y, b.y + b.h, b.y + Half(b.h)>>[((k - 4) % 3) + 1]]
Within(edge, targets) == {k \in DOMAIN targets : Abs(edge - targets[k]) < threshold}
FirstWithin(edge, targets) ==
  IF Within(edge, targets) = {} THEN NULL
  ELSE Some(targets[CHOOSE k \in Within(edge, targets) :
                      \A m \in Within(edge, targets) : k <= m])
NearestTo(edge, targets) ==
  CHOOSE d \in {Abs(edge - targets[k]) : k \in DOMAIN targets} :
    \A k \in DOMAIN targets : d <= Abs(edge - targets[k])

\* the boundary of the threshold along one axis of a move, and for one edge
\* of a resize
MoveBoundary(ax, result) ==
  /\ Nearest(ax) = threshold - 1 =>
       \E pr \in AllPairs(ax) :
         /\ RefDistance(ax, pr) = threshold - 1
         /\ result = ax.targets[pr[2]] + RefOffset(ax, pr[1])
  /\ Nearest(ax) = threshold => result = ax.p
ResizeBoundary(edge, targets, snap) ==
  /\ NearestTo(edge, targets) = threshold - 1 =>
       snap # NULL /\ Abs(edge - Val(snap)) = threshold - 1
  /\ NearestTo(edge, targets) = threshold => snap = NULL

\* C17: the threshold is strict, for a move and for a resize: a check point
\* whose nearest target is threshold - 1 away snaps onto a target at that
\* distance, and one whose nearest target is exactly threshold away does not
\* snap (a move returns the coordinate unchanged, a resize returns null)
StrictThreshold ==
  /\ lastOp.op = "getSnapResult" =>
       /\ MoveBoundary(MoveAxisX(lastOp.args), lastOp.result.x)
       /\ MoveBoundary(MoveAxisY(lastOp.args), lastOp.result.y)
  /\ lastOp.op = "getResizeSnapResult" =>
       LET a == lastOp.args
           r == lastOp.result
       IN /\ ResizeBoundary(a.edges.left, RefResizeTargetsX(a), r.snapLeft)
          /\ ResizeBoundary(a.edges.right, RefResizeTargetsX(a), r.snapRight)
          /\ ResizeBoundary(a.edges.top, RefResizeTargetsY(a), r.snapTop)
          /\ ResizeBoundary(a.edges.bottom, RefResizeTargetsY(a), r.snapBottom)

\* a resize whose left edge is exactly threshold from its nearest target and
\* did not snap, and whose bottom edge is threshold - 1 from it and snapped
ResizeAtBoundary ==
  /\ lastOp.op = "getResizeSnapResult"
  /\ NearestTo(lastOp.args.edges.left, RefResizeTargetsX(lastOp.args)) = threshold
  /\ lastOp.result.snapLeft = NULL
  /\ NearestTo(lastOp.args.edges.bottom, RefResizeTargetsY(lastOp.args)) = threshold - 1
  /\ lastOp.result.snapBottom # NULL

\* a move of a bare point that is exactly threshold from its nearest target
\* along x and is returned unchanged there
MoveAtThreshold ==
  /\ lastOp.op = "getSnapResult"
  /\ lastOp.args.movingBox = NULL
  /\ Nearest(MoveAxisX(lastOp.args)) = threshold
  /\ lastOp.result.x = lastOp.args.point.x

\* C18: along each axis the result of a move is the reference computation:
\* the (check point, target) pair of smallest distance below the threshold,
\* the first in loop order on ties, gives target + offset, which puts the
\* matched check point on the target; no such pair leaves the coordinate
MoveSnapIsReference ==
  lastOp.op = "getSnapResult" =>
    LET a == lastOp.args
        r == lastOp.result
        onTarget(ax, v) ==
          RefPairs(ax) # {} =>
            v + (RefCheckPoints(ax)[RefBest(ax)[1]] - ax.p) = ax.targets[RefBest(ax)[2]]
    IN /\ r.x = RefSnap(MoveAxisX(a))
       /\ r.y = RefSnap(MoveAxisY(a))
       /\ onTarget(MoveAxisX(a), r.x)
       /\ onTarget(MoveAxisY(a), r.y)

\* a move of a box of which a check point is as near to a target as one is to
\* a later target, and snaps to the first; an edge other than the leading one
\* decides the other axis
MoveTieFirstFound ==
  /\ lastOp.op = "getSnapResult"
  /\ lastOp.args.movingBox # NULL
  /\ LET ax == MoveAxisX(lastOp.args)
         ay == MoveAxisY(lastOp.args)
     IN /\ RefPairs(ax) # {}
        /\ \E q \in RefPairs(ax) :
             /\ q # RefBest(ax)
             /\ RefDistance(ax, q) = RefDistance(ax, RefBest(ax))
             /\ ax.targets[q[2]] # ax.targets[RefBest(ax)[2]]
        /\ RefPairs(ay) # {}
        /\ RefBest(ay)[1] # 1
        /\ lastOp.result.y # lastOp.args.point.y

\* C19: a resize gives each of the four edges the first target in scan order
\* (image bounds 0, size/2, size, then each element but the excluded one in
\* array order: leading edge, trailing edge, center) that is less than
\* threshold away, and null when there is none
ResizeSnapFirstFound ==
  lastOp.op = "getResizeSnapResult" =>
    LET a == lastOp.args
        r == lastOp.result
    IN /\ r.snapLeft = FirstWithin(a.edges.left, RefResizeTargetsX(a))
       /\ r.snapRight = FirstWithin(a.edges.right, RefResizeTargetsX(a))
       /\ r.snapTop = FirstWithin(a.edges.top, RefResizeTargetsY(a))
       /\ r.snapBottom = FirstWithin(a.edges.bottom, RefResizeTargetsY(a))

\* a resize whose left edge snapped to a target that is not its nearest, and
\* whose right edge found none
ResizeNotNearest ==
  /\ lastOp.op = "getResizeSnapResult"
  /\ lastOp.result.snapLeft # NULL
  /\ Abs(lastOp.args.edges.left - Val(lastOp.result.snapLeft))
       > NearestTo(lastOp.args.edges.left, RefResizeTargetsX(lastOp.args))
  /\ lastOp.result.snapRight = NULL

(***************************************************************************)
(* Clipboard                                                               *)
(***************************************************************************)
\* the elements a paste appended
Pasted == SubSeq(state'.elements, Len(state.elements) + 1, Len(state'.elements))

\* what the k-th paste in a row after a copy of originals does
PasteRule(originals, k) ==
  /\ Len(state'.elements) = Len(state.elements) + Len(originals)
  /\ SubSeq(state'.elements, 1, Len(state.elements)) = state.elements
  /\ \A i \in DOMAIN originals :
       Pasted[i].bbox.pixel = [x |-> originals[i].bbox.pixel.x + 20 * k,
                               y |-> originals[i].bbox.pixel.y + 20 * k,
                               w |-> originals[i].bbox.pixel.w,
                               h |-> originals[i].bbox.pixel.h]
  /\ \A i, j \in DOMAIN Pasted :
       i # j => /\ Pasted[i].id # Pasted[j].id
                /\ Pasted[i].serialNumber # Pasted[j].serialNumber
  /\ \A i \in DOMAIN Pasted :
       /\ Pasted[i].id \notin Ids(state.elements)
       /\ Pasted[i].serialNumber \notin Serials(state.elements)
  /\ Len(state'.selection.selectedIds) = Len(Pasted)
  /\ Range(state'.selection.selectedIds) = Ids(Pasted)

\* C20: while a project is loaded, the k-th paste in a row after a copy of a
\* non-empty selection appends one element per element copied, 20 * k pixels
\* right of and below the one copied and of its size, with ids and
\* serialNumbers distinct from each other and from those of the elements
\* present, and selects exactly the elements it appended
PasteAfterCopy ==
  [][KeyPaste /\ lastOp'.op = "pasteElements" /\ state.project # NULL
       => PasteRule(lastOp'.originals, lastOp'.k)]_vars

\* the second paste in a row of a copy of two elements has happened
PastedPairTwice ==
  /\ lastOp.op = "pasteElements"
  /\ lastOp.k = 2
  /\ Len(lastOp.originals) = 2
  /\ state.project # NULL
  /\ Len(state.elements) = 6

(***************************************************************************)
(* Self-heal of the image                                                  *)
(***************************************************************************)
\* the loads whose finally callback has not run
InFlight == {i \in DOMAIN imageLoads : ~imageLoads[i].finished}
Rejected == {i \in DOMAIN imageLoads : imageLoads[i].status = "rejected"}

\* C21: while the store keeps holding a project with an imageUrl and no
\* image, the subscription starts one load only, however many updates occur
OneLoadPerOccurrence == occurrenceLoads <= 1

\* every further load of an occurrence follows the rejection of the one before
RetryOnlyAfterRejection ==
  /\ occurrenceLoads <= 1 + Cardinality(Rejected)
  /\ \A i \in DOMAIN imageLoads :
       i < Len(imageLoads) => imageLoads[i].finished

\* C22: never two self-heal loads in flight: a load starts only while the
\* flag is false, and the flag is true exactly from the start of a load
\* until its finally callback
OneLoadInFlight ==
  /\ [](Cardinality(InFlight) <= 1)
  /\ [](isLoadingImage <=> InFlight # {})
  /\ [][Len(imageLoads') > Len(imageLoads) => ~isLoadingImage]_vars

\* a load is pending and three updates of the store have left it the only one
UpdatesWhileLoading ==
  /\ Len(imageLoads) = 1
  /\ imageLoads[1].status = "pending"
  /\ isLoadingImage
  /\ steps >= 3
  /\ needsImage(state)

\* the step of the catch callback
RejectionStep ==
  \E i \in DOMAIN imageLoads :
    imageLoads[i].status = "pending" /\ imageLoads'[i].status = "rejected"

\* a load was rejected, has finished, and the image is still missing
AfterRejection ==
  /\ state.image = NULL
  /\ \E i \in Rejected : imageLoads[i].finished

\* what add, update, delete, undo and redo do to the elements
EditsTakeEffect ==
  /\ \A id \in Ids(state.elements) :
       DeleteElement(id) =>
         id \notin Ids(state'.elements) /\ Len(state'.elements) = Len(state.elements) - 1
  /\ (ArrowKey("ArrowRight", FALSE) /\ state.selection.selectedIds # <<>>) =>
       \E i \in DOMAIN state.elements :
         state'.elements[i].bbox.pixel.x = state.elements[i].bbox.pixel.x + 1
  /\ (/\ FinishDrawing
      /\ state.drawing.isDrawing
      /\ state.drawing.startPoint # NULL /\ state.drawing.currentPoint # NULL
      /\ Abs(Val(state.drawing.currentPoint).x - Val(state.drawing.startPoint).x)
           >= minAnnotationSize
      /\ Abs(Val(state.drawing.currentPoint).y - Val(state.drawing.startPoint).y)
           >= minAnnotationSize) =>
       Len(state'.elements) = Len(state.elements) + 1
  /\ (UndoAnnotation /\ Len(pastStates) > 0) =>
       state'.elements = pastStates[Len(pastStates)].elements
  /\ (RedoAnnotation /\ Len(futureStates) > 0) =>
       state'.elements = futureStates[Len(futureStates)].elements

\* C23: a rejected self-heal load changes nothing in the store, the flag
\* returns to false after it, and add, update, delete, undo and redo still
\* take effect afterwards, the image staying null
RejectionIsHarmless ==
  /\ [][RejectionStep => state' = state /\ pastStates' = pastStates
                           /\ futureStates' = futureStates]_vars
  /\ (\E i \in Rejected : ~imageLoads[i].finished) ~> ~isLoadingImage
  /\ [][AfterRejection => EditsTakeEffect]_vars

\* an undo that took effect after a rejected load, the image still missing
UndoAfterRejection ==
  /\ lastOp.op = "undoAnnotation"
  /\ ~lastOp.noop
  /\ 1 \in Rejected
  /\ imageLoads[1].finished
  /\ state.image = NULL
  /\ ~isLoadingImage \/ Len(imageLoads) = 2

(***************************************************************************)
(* The pinch gesture and the store's viewport                              *)
(***************************************************************************)
\* the step that ends a pinch
PinchEnds == pinchRef # NULL /\ pinchRef' = NULL

ReorderRule(activeId, overId) ==
  LET oldIndex == FindIndex(state.elements, LAMBDA e : e.id = activeId)
      newIndex == FindIndex(state.elements, LAMBDA e : e.id = overId)
      n == Len(state.elements)
  IN /\ Len(state'.elements) = n
     /\ \A i \in 1..n : state'.elements[i].displayOrder = i - 1
     /\ {state'.elements[i].displayOrder : i \in 1..n} = 0..(n - 1)
     /\ state'.elements[newIndex] =
          [state.elements[oldIndex] EXCEPT !.displayOrder = newIndex - 1]
     /\ Ids(state'.elements) = Ids(state.elements)

\* C25: after reorderElements(oldIndex, newIndex) on n elements every
\* displayOrder is the element's array index, so the values are exactly
\* 0 .. n-1, the element that was at oldIndex is at newIndex and the set of
\* ids is the same.
ReorderRenumbers ==
  [][\A a, b \in Ids(state.elements) : LayerDragEnd(a, b) => ReorderRule(a, b)]_vars

\* the first annotation of ProjectA has been dragged behind a third one
ReorderedThree ==
  /\ Len(state.elements) = 3
  /\ state.elements[3].id = ProjectA.elements[1].id
  /\ state.elements[1].id = ProjectA.elements[2].id
  /\ \A i \in 1..3 : state.elements[i].displayOrder = i - 1

(***************************************************************************)
(* The element factory                                                     *)
(***************************************************************************)
\* C26: createElement gives the serialNumber 1 + the largest serialNumber of
\* existingElements, 1 when there is none; on serialNumbers 1 .. n it gives
\* n + 1.
SerialIsMaxPlusOne ==
  lastOp.op = "createElement" =>
    LET existing == Serials(lastOp.args)
        serial == lastOp.result.serialNumber
    IN /\ existing = {} => serial = 1
       /\ existing # {} => /\ serial - 1 \in existing
                           /\ \A n \in existing : n <= serial - 1
       /\ \A n \in 1..MaxExisting : existing = 1..n => serial = n + 1

\* createElement was called on three elements with the serialNumbers 1 .. 3,
\* the largest not on the last
SerialAfterThree ==
  /\ lastOp.op = "createElement"
  /\ Len(lastOp.args) = 3
  /\ Serials(lastOp.args) = 1..3
  /\ lastOp.args[3].serialNumber # 3
  /\ lastOp.result.serialNumber = 4

(***************************************************************************)
(* The size of the annotations                                             *)
(***************************************************************************)
AtLeastMinimum(e) ==
  e.bbox.pixel.w >= minAnnotationSize /\ e.bbox.pixel.h >= minAnnotationSize

\* the element has the size of an annotation of the project file
SizeFromFile(e) ==
  \E i \in DOMAIN ProjectD.elements :
    /\ ProjectD.elements[i].bbox.pixel.w = e.bbox.pixel.w
    /\ ProjectD.elements[i].bbox.pixel.h = e.bbox.pixel.h

\* C27, as claimed: after draw finish, drag, arrow-key move, resize commit,
\* paste, undo and redo every element of the store is at least
\* minAnnotationSize wide and high.
EverySizeAtLeastMinimum ==
  steps > 0 => \A i \in DOMAIN state.elements : AtLeastMinimum(state.elements[i])

\* C27, amended: after those operations every element of the store has
\* w > 0 and h > 0; an element below minAnnotationSize has the size an
\* annotation of the loaded file has; and the element a resize commit writes
\* is at least minAnnotationSize wide and high, whatever the live size was.
SizePositiveAndMinimumWhereSet ==
  /\ [](\A i \in DOMAIN state.elements :
          /\ state.elements[i].bbox.pixel.w > 0
          /\ state.elements[i].bbox.pixel.h > 0
          /\ AtLeastMinimum(state.elements[i]) \/ SizeFromFile(state.elements[i]))
  /\ [][\A id \in Ids(state.elements), live \in LiveBoxes :
          TransformEnd(id, live) =>
            \A i \in DOMAIN state'.elements :
              state'.elements[i].id = id => AtLeastMinimum(state'.elements[i])]_vars
  /\ [][\A k \in DOMAIN Created :
          AtLeastMinimum(Created[k]) \/ SizeFromFile(Created[k])]_vars

\* the narrow annotation of the file was resized with a negative live width
\* and a live height below the minimum and has the minimum size, and a pasted
\* copy has it too
NarrowResized ==
  /\ \E i \in DOMAIN state.elements :
       /\ state.elements[i].id = ProjectD.elements[1].id
       /\ state.elements[i].bbox.pixel.w = minAnnotationSize
       /\ state.elements[i].bbox.pixel.h = minAnnotationSize
  /\ Len(state.elements) = 3
  /\ \A i \in DOMAIN state.elements : AtLeastMinimum(state.elements[i])

(***************************************************************************)
(* A step of a resize gesture                                              *)
(***************************************************************************)
Sides == {"left", "right", "top", "bottom"}

\* the guideline a snapped side is shown with
SideGuideline(side, position) ==
  \E i \in DOMAIN activeGuidelines :
    /\ activeGuidelines[i].position = position
    /\ activeGuidelines[i].type =
         IF side \in {"left", "right"} THEN "vertical" ELSE "horizontal"

\* C28: in a step of a resize gesture every edge resize-snap returned a
\* target for is moved to the target and shown with a guideline, and every
\* other edge stays where the gesture put it, also when both edges of one
\* axis have a target.
EveryMatchedEdgeMoved ==
  lastOp.op = "handleElementTransform" =>
    \A side \in Sides :
      IF lastOp.snap[side] # NULL
      THEN /\ lastOp.result[side] = Val(lastOp.snap[side])
           /\ SideGuideline(side, Val(lastOp.snap[side]))
      ELSE lastOp.result[side] = lastOp.args[side]

\* what the handler does: of the two edges of an axis the left (top) one is
\* moved when it has a target, the right (bottom) one only when the left
\* (top) one has none; every edge with a target has its guideline
FirstMatchedEdgeMoved ==
  lastOp.op = "handleElementTransform" =>
    LET a == lastOp.args
        t == lastOp.snap
        r == lastOp.result
    IN /\ r.left = (IF t.left # NULL THEN Val(t.left) ELSE a.left)
       /\ r.right = (IF t.left = NULL /\ t.right # NULL THEN Val(t.right) ELSE a.right)
       /\ r.top = (IF t.top # NULL THEN Val(t.top) ELSE a.top)
       /\ r.bottom = (IF t.top = NULL /\ t.bottom # NULL THEN Val(t.bottom) ELSE a.bottom)
       /\ \A side \in Sides : t[side] # NULL => SideGuideline(side, Val(t[side]))

\* the left and the right edge both have a target, the two targets differ,
\* and the right edge is where the gesture put it, with a guideline at its
\* target
RightEdgeLeftBehind ==
  /\ lastOp.op = "handleElementTransform"
  /\ lastOp.snap.left # NULL /\ lastOp.snap.right # NULL
  /\ Val(lastOp.snap.left) < Val(lastOp.snap.right)
  /\ lastOp.args.left # Val(lastOp.snap.left)
  /\ lastOp.result.right = lastOp.args.right
  /\ lastOp.result.right # Val(lastOp.snap.right)
  /\ SideGuideline("right", Val(lastOp.snap.right))

(***************************************************************************)
(* The place of a new element in the stack                                 *)
(***************************************************************************)
\* C29: an element createElement makes, on draw finish or paste, has a
\* displayOrder above that of every element already in the list, so it is
\* the first hit at every point it covers, whatever was created and deleted
\* before.
CreatedOnTop ==
  [][\A k \in DOMAIN Created :
       /\ \A i \in DOMAIN state.elements :
            Created[k].displayOrder > state.elements[i].displayOrder
       /\ k = Len(Created) =>
            \A pos \in PointerPositions :
              isPointInElement(pos, Created[k]) =>
                findElementsAtPoint(pos, state'.elements)[1].id = Created[k].id]_vars

\* on lists whose displayOrder values are below their length, as they are
\* until an element is deleted, the created element is on top
CreatedOnTopOfDense ==
  [][(\A i \in DOMAIN state.elements : state.elements[i].displayOrder < Len(state.elements))
       => \A k \in DOMAIN Created : \A i \in DOMAIN state.elements :
            Created[k].displayOrder > state.elements[i].displayOrder]_vars

(***************************************************************************)
(* The guidelines of a move                                                *)
(***************************************************************************)
GuidelinesOf(type) == {i \in DOMAIN activeGuidelines : activeGuidelines[i].type = type}

\* one axis of a move: ax the axis, v the coordinate returned, type the
\* orientation of its guideline and span the image's size across the axis
AxisOutput(ax, v, type, span) ==
  IF RefPairs(ax) = {}
  THEN v = ax.p /\ GuidelinesOf(type) = {}
  ELSE /\ Cardinality(GuidelinesOf(type)) = 1
       /\ \A i \in GuidelinesOf(type) :
            /\ activeGuidelines[i].position = ax.targets[RefBest(ax)[2]]
            /\ activeGuidelines[i].start = 0
            /\ activeGuidelines[i].end = span

\* C30: for x and for y by itself, a move with no target within the
\* threshold of a check point returns the coordinate it was given and sets
\* no guideline of that orientation; otherwise it sets exactly one, at the
\* coordinate of the matched target and from 0 to the image's size across.
MoveSnapGuidelines ==
  lastOp.op = "getSnapResult" =>
    /\ AxisOutput(MoveAxisX(lastOp.args), lastOp.result.x, "vertical",
                  lastOp.args.imageHeight)
    /\ AxisOutput(MoveAxisY(lastOp.args), lastOp.result.y, "horizontal",
                  lastOp.args.imageWidth)

\* a box was moved whose trailing edge or center matched along x: the
\* vertical guideline is on the target, away from the returned x, and there
\* is one horizontal guideline
GuidelineAwayFromBox ==
  /\ lastOp.op = "getSnapResult"
  /\ lastOp.args.movingBox # NULL
  /\ RefBest(MoveAxisX(lastOp.args))[1] # 1
  /\ Len(activeGuidelines) = 2
  /\ activeGuidelines[1].type = "vertical"
  /\ activeGuidelines[1].position # lastOp.result.x
  /\ activeGuidelines[1].end = lastOp.args.imageHeight
  /\ activeGuidelines[2].type = "horizontal"

\* a point was moved with no target within the threshold along y: the y is
\* the one given and the only guideline is vertical
NoGuidelineAlongY ==
  /\ lastOp.op = "getSnapResult"
  /\ RefPairs(MoveAxisY(lastOp.args)) = {}
  /\ lastOp.result.y = lastOp.args.point.y
  /\ Len(activeGuidelines) = 1
  /\ activeGuidelines[1].type = "vertical"

(***************************************************************************)
(* A drag changes the place of one element                                 *)
(***************************************************************************)
\* what a pointer move to pos leaves while the element mode.elementId is dragged
DragMoveRule(pos) ==
  LET i == FindIndex(state.elements, LAMBDA el : el.id = mode.elementId)
      e == state.elements[i]
      after == state'.elements[i]
      others == SelectSeq(state.elements, LAMBDA el : el.id # mode.elementId)
      imageSize == Val(CanvasImageSize)
      newX == pos.x - mode.offset.x
      newY == pos.y - mode.offset.y
      snapped == getSnapResult([x |-> newX, y |-> newY], others, {}, imageSize.width,
                               imageSize.height,
                               Some([x |-> newX, y |-> newY, w |-> e.bbox.pixel.w,
                                     h |-> e.bbox.pixel.h]))
  IN /\ Len(state'.elements) = Len(state.elements)
     /\ \A j \in DOMAIN state.elements : j # i => state'.elements[j] = state.elements[j]
     /\ after = [e EXCEPT !.bbox = after.bbox, !.updatedAt = after.updatedAt]
     /\ after.bbox.pixel = [e.bbox.pixel EXCEPT !.x = snapped.point.x, !.y = snapped.point.y]
     /\ after.bbox.norm = pixelToNorm(after.bbox.pixel,
                                      [w |-> imageSize.width, h |-> imageSize.height])

\* C31: a pointer move of a drag changes the x and y of the dragged element,
\* the norm derived from them and its updatedAt, and nothing else of any
\* element; the place is the snap against the other elements and the image,
\* never against the dragged element's own edges; the pointer up that
\* follows leaves the elements as they are.
DragMovesOnlyTheDragged ==
  /\ [][\A pos \in StackPositions :
          /\ mode.type = "dragging"
          /\ mode.elementId \in Ids(state.elements)
          /\ HandleMouseMove(Some(pos))
          => DragMoveRule(pos)]_vars
  /\ [][mode.type = "dragging" /\ HandleMouseUp => state'.elements = state.elements]_vars

\* a drag of the top annotation, with another annotation selected as well,
\* has moved it and has ended
DragEnded ==
  /\ lastOp.op = "handleMouseUp"
  /\ lastOp.mode.type = "dragging"
  /\ Len(state.selection.selectedIds) = 2
  /\ \E i \in DOMAIN state.elements :
       /\ state.elements[i].id = lastOp.mode.elementId
       /\ state.elements[i].bbox.pixel.x # ProjectC.elements[i].bbox.pixel.x
       /\ state.elements[i].bbox.pixel.w = ProjectC.elements[i].bbox.pixel.w

(***************************************************************************)
(* The clipboard is a snapshot                                             *)
(***************************************************************************)
\* the elements a copy takes
Selected == SelectSeq(state.elements, LAMBDA e : e.id \in Range(state.selection.selectedIds))

\* the element pasted for the clipboard element c: c's place moved by
\* pasteOffset, c's size, label, component, notes and color
PastedFrom(c, e) ==
  /\ e.bbox.pixel = [x |-> c.bbox.pixel.x + pasteOffset, y |-> c.bbox.pixel.y + pasteOffset,
                     w |-> c.bbox.pixel.w, h |-> c.bbox.pixel.h]
  /\ e.label = c.label
  /\ \A k \in OptionalFields :
       /\ k \in DOMAIN e <=> k \in DOMAIN c
       /\ k \in DOMAIN c => e[k] = c[k]

\* C32: the clipboard is the selected elements as they were at the copy: a
\* copy of an empty selection leaves it, a copy of a non-empty one sets it,
\* no other step but a paste changes it (not a move, an edit or a delete of
\* the originals, not undo, not redo), and a paste appends for each clipboard
\* element an element with its place + 20, its size, label, component, notes
\* and color.
ClipboardIsSnapshot ==
  /\ [][CopySelectedElements =>
          state'.clipboard.elements =
            (IF Selected = <<>> THEN state.clipboard.elements ELSE Selected)]_vars
  /\ [][state'.clipboard # state.clipboard => CopySelectedElements \/ KeyPaste]_vars
  /\ [][KeyPaste =>
          /\ Len(Created) = Len(state.clipboard.elements)
          /\ \A i \in DOMAIN Created : PastedFrom(state.clipboard.elements[i], Created[i])]_vars

\* the first annotation was copied, then moved and given another label, and
\* the paste has made an element from what was copied
PastedFromSnapshot ==
  \E i, j \in DOMAIN state.elements :
    /\ state.elements[i].id = ProjectE.elements[1].id
    /\ state.elements[i].label # ProjectE.elements[1].label
    /\ state.elements[i].bbox.pixel # ProjectE.elements[1].bbox.pixel
    /\ state.elements[j].id \in 1..uuid
    /\ PastedFrom(ProjectE.elements[1], state.elements[j])

(***************************************************************************)
(* The actions that leave the elements and the history                     *)
(***************************************************************************)
\* a step of one of the store actions that leave the elements as they are
QuietStep ==
  \/ \E id \in Ids(state.elements), add \in BOOLEAN : LayerSelect(id, add)
  \/ DeselectAll
  \/ SetScale(Num(2))
  \/ SetOffset(Num(4), Num(-6))
  \/ SetViewport(Num(3), Num(4), Num(-6))
  \/ ZoomIn
  \/ ZoomOut
  \/ ZoomToFit
  \/ SetContainerSize(64, 32)
  \/ \E tool \in ToolModes : SetActiveTool(tool)
  \/ CopySelectedElements
  \/ StartDrawing([x |-> 30, y |-> 22])
  \/ UpdateDrawing([x |-> 8, y |-> 10])
  \/ CancelDrawing

\* C33: selectElement, deselectAll, setScale, setOffset, setViewport, zoomIn,
\* zoomOut, zoomToFit, setContainerSize, setActiveTool, copySelectedElements,
\* startDrawing, updateDrawing and cancelDrawing leave the elements, add no
\* snapshot to the undo history and discard no redo snapshot.
QuietActionsLeaveHistory ==
  [][QuietStep =>
       /\ state'.elements = state.elements
       /\ pastStates' = pastStates
       /\ futureStates' = futureStates
       /\ lastArgs' = lastArgs]_vars

\* after a move and its undo, with a redo snapshot waiting, the selection,
\* the viewport or the tool was changed and the history is as it was
QuietWithRedoWaiting ==
  /\ futureStates # <<>>
  /\ pastStates # <<>>
  /\ steps = MaxSteps
  /\ \/ state.viewport.scale # initialViewportState.scale
     \/ state.selection.selectedIds = <<>>
     \/ state.activeTool # initialState.activeTool

\* the store and the undo history after the step are those before it
SilentNoOp ==
  /\ state' = state
  /\ pastStates' = pastStates
  /\ futureStates' = futureStates
  /\ lastArgs' = lastArgs

\* a step that is a store call whose precondition fails
PreconditionViolated ==
  \/ \E id \in {MissingId} \cup Ids(state.elements) :
       /\ id \notin Ids(state.elements)
       /\ UpdateLabel(id, "Cancel") \/ MoveElement(id, 2, -4)
  \/ /\ state.project = NULL
     /\ \E id \in {MissingId} \cup Ids(state.elements) : MoveElement(id, 2, -4)
  \/ /\ Len(state.clipboard.elements) = 0 \/ state.project = NULL
     /\ PasteElements
  \/ /\ state.containerSize.width = 0 \/ state.containerSize.height = 0
     /\ ZoomIn \/ ZoomOut \/ ZoomToFit \/ CenterAt100
  \/ /\ state.project = NULL
     /\ ZoomToFit \/ CenterAt100

\* C34: a store call whose precondition fails (updateElement or moveElement
\* with an id no element has, moveElement without a project, pasteElements
\* with an empty clipboard or without a project, zoomIn / zoomOut / zoomToFit
\* / centerAt100 with a container of width or height 0, zoomToFit /
\* centerAt100 without a project) leaves the whole store state and the undo
\* history as they were.
PreconditionViolationsAreNoOps == [][PreconditionViolated => SilentNoOp]_vars

\* pasteElements was called with a filled clipboard after the project was
\* cleared and an undo brought elements back
PastedWithoutProject ==
  /\ lastOp.op = "pasteElements"
  /\ state.project = NULL
  /\ Len(state.clipboard.elements) > 0
  /\ Len(state.elements) > 0

\* C35: every id in selection.selectedIds is the id of an element in
\* elements, and no id is in selectedIds twice.
SelectionOfPresentElements ==
  LET selectedIds == state.selection.selectedIds
  IN /\ \A i \in DOMAIN selectedIds : selectedIds[i] \in Ids(state.elements)
     /\ \A i, j \in DOMAIN selectedIds : selectedIds[i] = selectedIds[j] => i = j

\* an undo or redo dropped a selected id and kept another one
SelectionPartlyDropped ==
  /\ lastOp.op \in {"undoAnnotation", "redoAnnotation"}
  /\ lastOp.dropped > 0
  /\ Len(state.selection.selectedIds) > 0

\* C36: whenever image is set there is a project and the image is the one of
\* that project (passed to loadProject with it or loaded from its imageUrl).
ImageOfCurrentProject ==
  state.image # NULL =>
    /\ state.project # NULL
    /\ Val(state.image) = Val(state.project).imageUrl

\* C37: a redo that follows an undo, with no element-changing action in
\* between, gives back the elements the undo started from, also when the
\* throttle's trailing timer fires between the two calls.
UndoRedoRoundTrip ==
  (lastOp.op = "redoAnnotation" /\ lastOp.before # NULL) =>
    state.elements = Val(lastOp.before)

\* the round trip when the trailing timer does not fire between the calls
UndoRedoRoundTripWithoutTimer ==
  (lastOp.op = "redoAnnotation" /\ lastOp.before # NULL /\ ~lastOp.timer) =>
    state.elements = Val(lastOp.before)

\* a redo followed an undo with the trailing timer in between
RedoAfterTimer ==
  lastOp.op = "redoAnnotation" /\ lastOp.before # NULL /\ lastOp.timer

\* no element is created or removed and no bbox changes in the step
SameBoxes ==
  /\ Len(state'.elements) = Len(state.elements)
  /\ \A i \in DOMAIN state.elements : state'.elements[i].bbox = state.elements[i].bbox

\* C38: once a second finger has touched down while the mode was drawing or
\* dragging, no later touch event of the gesture creates an element or
\* changes a bbox.
PinchedGestureNeverEdits == [][pinched => SameBoxes]_vars

\* while the pinch is open no touch event creates an element or changes a bbox
OpenPinchNeverEdits == [][pinchRef # NULL => SameBoxes]_vars

\* the finger that began a drag has moved an annotation after a pinch
DraggedAfterPinch ==
  /\ pinched
  /\ pinchRef = NULL
  /\ mode.type = "dragging"
  /\ \E i \in DOMAIN state.elements :
       state.elements[i].bbox # viewportCtx.state.elements[i].bbox

\* C39: elements is empty while there is no project, and holds no element of
\* a project file other than the current project's, whatever undo calls
\* follow a loadProject or a clearProject.
HistoryWithinProject ==
  /\ state.project = NULL => state.elements = <<>>
  /\ \A p \in Projects :
       (state.project # NULL /\ Val(state.project).id # p.id) =>
         Ids(state.elements) \cap Ids(p.elements) = {}

\* C40: no two elements of the elements array have the same id, and no two
\* have the same serialNumber.
DistinctIdsAndSerials ==
  \A i, j \in DOMAIN state.elements :
    i # j => /\ state.elements[i].id # state.elements[j].id
             /\ state.elements[i].serialNumber # state.elements[j].serialNumber

\* two elements were pasted at once next to the two of the project
PastedTwo ==
  /\ lastOp.op = "pasteElements"
  /\ Len(state.elements) = 4
  /\ Len(state.selection.selectedIds) = 2

====
